---------------------------- MODULE Spec2Model ----------------------------
(***************************************************************************)
(* A model of rust_db: the binary wire codec (protocol.rs), the in-memory  *)
(* table store (db.rs, commands.rs) and the dispatch actor with its        *)
(* producers (main.rs, listener.rs, web.rs).                               *)
(*                                                                         *)
(* Representation.  A byte is an integer in 0..255 and a byte buffer a     *)
(* sequence of bytes.  A Rust String is the sequence of its UTF-8 bytes.   *)
(* A 64-bit quantity is a TLC integer; TLC's integers are 32 bits wide and *)
(* TLC stops with an overflow error on anything larger, so the inputs of   *)
(* every specification keep row ids and Int values below 2^31 in size.     *)
(* A HashMap is a function from its key set; the order in which the code   *)
(* iterates over it is left to the caller as a sequence of the keys.       *)
(***************************************************************************)
EXTENDS Integers, Sequences, FiniteSets, TLC

(***************************************************************************)
(* protocol.rs: opcodes and tags                                           *)
(***************************************************************************)
OP_CREATE_TABLE == 1
OP_INSERT_ROW == 2
OP_UPDATE_ROW == 3
OP_SELECT_ALL == 4
OP_GET_TABLES == 5
TYPE_INT == 1
TYPE_TEXT == 2
TYPE_BOOL == 3
RESP_OK == 0
RESP_ERR == 1

\* "Unexpected end of buffer"
MsgUnexpectedEnd ==
    << 85, 110, 101, 120, 112, 101, 99, 116, 101, 100, 32, 101, 110, 100, 32,
       111, 102, 32, 98, 117, 102, 102, 101, 114 >>
\* "Unknown column type"
MsgUnknownColumnType ==
    << 85, 110, 107, 110, 111, 119, 110, 32, 99, 111, 108, 117, 109, 110, 32,
       116, 121, 112, 101 >>
\* "Unknown value type"
MsgUnknownValueType ==
    << 85, 110, 107, 110, 111, 119, 110, 32, 118, 97, 108, 117, 101, 32, 116,
       121, 112, 101 >>
\* "Unknown command opcode"
MsgUnknownOpcode ==
    << 85, 110, 107, 110, 111, 119, 110, 32, 99, 111, 109, 109, 97, 110, 100,
       32, 111, 112, 99, 111, 100, 101 >>
\* "Protocol error: "
MsgProtocolErrorPrefix ==
    << 80, 114, 111, 116, 111, 99, 111, 108, 32, 101, 114, 114, 111, 114, 58, 32 >>
\* "invalid utf-8 sequence of "
MsgInvalidUtf8A ==
    << 105, 110, 118, 97, 108, 105, 100, 32, 117, 116, 102, 45, 56, 32, 115,
       101, 113, 117, 101, 110, 99, 101, 32, 111, 102, 32 >>
\* " bytes from index "
MsgInvalidUtf8B ==
    << 32, 98, 121, 116, 101, 115, 32, 102, 114, 111, 109, 32, 105, 110, 100,
       101, 120, 32 >>
\* "incomplete utf-8 byte sequence from index "
MsgIncompleteUtf8 ==
    << 105, 110, 99, 111, 109, 112, 108, 101, 116, 101, 32, 117, 116, 102, 45,
       56, 32, 98, 121, 116, 101, 32, 115, 101, 113, 117, 101, 110, 99, 101,
       32, 102, 114, 111, 109, 32, 105, 110, 100, 101, 120, 32 >>
\* "Empty response"
MsgEmptyResponse ==
    << 69, 109, 112, 116, 121, 32, 114, 101, 115, 112, 111, 110, 115, 101 >>
\* "Unknown response type"
MsgUnknownResponseType ==
    << 85, 110, 107, 110, 111, 119, 110, 32, 114, 101, 115, 112, 111, 110, 115,
       101, 32, 116, 121, 112, 101 >>
\* "Table not found"
MsgTableNotFound ==
    << 84, 97, 98, 108, 101, 32, 110, 111, 116, 32, 102, 111, 117, 110, 100 >>
\* "Table already exists"
MsgTableExists ==
    << 84, 97, 98, 108, 101, 32, 97, 108, 114, 101, 97, 100, 121, 32, 101, 120,
       105, 115, 116, 115 >>
\* "Column count mismatch"
MsgColumnCountMismatch ==
    << 67, 111, 108, 117, 109, 110, 32, 99, 111, 117, 110, 116, 32, 109, 105,
       115, 109, 97, 116, 99, 104 >>
\* "Type mismatch for column "
MsgTypeMismatchPrefix ==
    << 84, 121, 112, 101, 32, 109, 105, 115, 109, 97, 116, 99, 104, 32, 102,
       111, 114, 32, 99, 111, 108, 117, 109, 110, 32 >>
\* "Row not found"
MsgRowNotFound ==
    << 82, 111, 119, 32, 110, 111, 116, 32, 102, 111, 117, 110, 100 >>
\* "Column not found"
MsgColumnNotFound ==
    << 67, 111, 108, 117, 109, 110, 32, 110, 111, 116, 32, 102, 111, 117, 110, 100 >>
\* "table_name", "column_name", "column_type"
StrTableName == << 116, 97, 98, 108, 101, 95, 110, 97, 109, 101 >>
StrColumnName == << 99, 111, 108, 117, 109, 110, 95, 110, 97, 109, 101 >>
StrColumnType == << 99, 111, 108, 117, 109, 110, 95, 116, 121, 112, 101 >>
\* "int", "text", "bool": format!("{:?}", col_type).to_lowercase()
StrInt == << 105, 110, 116 >>
StrText == << 116, 101, 120, 116 >>
StrBool == << 98, 111, 111, 108 >>

(***************************************************************************)
(* Values (db.rs, db_types.rs)                                             *)
(***************************************************************************)
IntV(i) == [tag |-> "Int", i |-> i]
TextV(s) == [tag |-> "Text", s |-> s]
BoolV(b) == [tag |-> "Bool", b |-> b]

Err(m) == [ok |-> FALSE, err |-> m]

(***************************************************************************)
(* Integer conversions: to_be_bytes, from_be_bytes, `as u8`, `as u16`      *)
(***************************************************************************)
RECURSIVE to_be_bytes(_, _)
to_be_bytes(n, w) ==
    IF w = 0 THEN << >> ELSE to_be_bytes(n \div 256, w - 1) \o << n % 256 >>

RECURSIVE from_be_bytes(_)
from_be_bytes(b) ==
    IF Len(b) = 0 THEN 0
    ELSE from_be_bytes(SubSeq(b, 1, Len(b) - 1)) * 256 + b[Len(b)]

\* A complement that leaves the bytes as they are.
Complement_identity(b) == b

Complement(b) == [k \in 1..Len(b) |-> 255 - b[k]]

\* i64::to_be_bytes: two's complement, most significant byte first.
i64_to_be_bytes(i) ==
    IF i >= 0 THEN to_be_bytes(i, 8) ELSE Complement(to_be_bytes(-(i + 1), 8))

\* `u64::from_be_bytes(..) as i64`: the sign bit is the top bit of byte 0.
u64_as_i64(b) ==
    IF b[1] < 128 THEN from_be_bytes(b) ELSE -(from_be_bytes(Complement(b))) - 1

\* A count that keeps only seven bits.
as_u8_7bit(n) == n % 128

as_u8(n) == n % 256
as_u16(n) == n % 65536

\* Decimal digits of a number, as {} formats a usize.
RECURSIVE Dec(_)
Dec(n) == IF n < 10 THEN << 48 + n >> ELSE Dec(n \div 10) \o << 48 + (n % 10) >>

(***************************************************************************)
(* UTF-8 validation, as String::from_utf8 and String::from_utf8_lossy do   *)
(* it: the result of a failed validation names the length of the valid     *)
(* prefix (upto) and of the invalid sequence (elen, 0 when the buffer ends *)
(* inside a character).                                                    *)
(***************************************************************************)
Utf8Bad(upto, elen) == [valid |-> FALSE, upto |-> upto, elen |-> elen]

IsCont(b, i) == b[i] \in 128..191

SecondRange3(x) ==
    IF x = 224 THEN 160..191 ELSE IF x = 237 THEN 128..159 ELSE 128..191

SecondRange4(x) ==
    IF x = 240 THEN 144..191 ELSE IF x = 244 THEN 128..143 ELSE 128..191

RECURSIVE Utf8Scan(_, _)
Utf8Scan(b, i) ==
    IF i > Len(b) THEN [valid |-> TRUE]
    ELSE LET x == b[i]
             n == Len(b)
         IN  IF x < 128 THEN Utf8Scan(b, i + 1)
             ELSE IF x \in 194..223 THEN
                  IF i + 1 > n THEN Utf8Bad(i - 1, 0)
                  ELSE IF ~IsCont(b, i + 1) THEN Utf8Bad(i - 1, 1)
                  ELSE Utf8Scan(b, i + 2)
             ELSE IF x \in 224..239 THEN
                  IF i + 1 > n THEN Utf8Bad(i - 1, 0)
                  ELSE IF b[i + 1] \notin SecondRange3(x) THEN Utf8Bad(i - 1, 1)
                  ELSE IF i + 2 > n THEN Utf8Bad(i - 1, 0)
                  ELSE IF ~IsCont(b, i + 2) THEN Utf8Bad(i - 1, 2)
                  ELSE Utf8Scan(b, i + 3)
             ELSE IF x \in 240..244 THEN
                  IF i + 1 > n THEN Utf8Bad(i - 1, 0)
                  ELSE IF b[i + 1] \notin SecondRange4(x) THEN Utf8Bad(i - 1, 1)
                  ELSE IF i + 2 > n THEN Utf8Bad(i - 1, 0)
                  ELSE IF ~IsCont(b, i + 2) THEN Utf8Bad(i - 1, 2)
                  ELSE IF i + 3 > n THEN Utf8Bad(i - 1, 0)
                  ELSE IF ~IsCont(b, i + 3) THEN Utf8Bad(i - 1, 3)
                  ELSE Utf8Scan(b, i + 4)
             ELSE Utf8Bad(i - 1, 1)

\* A buffer of ASCII bytes is valid; anything else is scanned.
from_utf8(b) ==
    IF \A k \in 1..Len(b) : b[k] < 128 THEN [valid |-> TRUE] ELSE Utf8Scan(b, 1)

\* Display of the Utf8Error inside a FromUtf8Error.
Utf8ErrorMsg(u) ==
    IF u.elen = 0 THEN MsgIncompleteUtf8 \o Dec(u.upto)
    ELSE MsgInvalidUtf8A \o Dec(u.elen) \o MsgInvalidUtf8B \o Dec(u.upto)

\* U+FFFD REPLACEMENT CHARACTER in UTF-8.
Replacement == << 239, 191, 189 >>

RECURSIVE from_utf8_lossy(_)
from_utf8_lossy(b) ==
    LET u == from_utf8(b)
    IN  IF u.valid THEN b
        ELSE SubSeq(b, 1, u.upto) \o Replacement \o
             (IF u.elen = 0 THEN << >>
              ELSE from_utf8_lossy(SubSeq(b, u.upto + u.elen + 1, Len(b))))

(***************************************************************************)
(* protocol.rs: Cursor.  pos counts the bytes consumed, as in the code.    *)
(***************************************************************************)
\* A take that reads zeros where the buffer has ended.
take_padded(buf, pos, n) ==
    [ok |-> TRUE, val |-> [k \in 1..n |-> IF pos + k <= Len(buf) THEN buf[pos + k] ELSE 0],
     pos |-> pos + n]

take(buf, pos, n) ==
    IF pos + n > Len(buf) THEN Err(MsgUnexpectedEnd)
    ELSE [ok |-> TRUE, val |-> SubSeq(buf, pos + 1, pos + n), pos |-> pos + n]

u8(buf, pos) ==
    LET t == take(buf, pos, 1)
    IN  IF t.ok THEN [ok |-> TRUE, val |-> t.val[1], pos |-> t.pos] ELSE t

u16(buf, pos) ==
    LET t == take(buf, pos, 2)
    IN  IF t.ok THEN [ok |-> TRUE, val |-> from_be_bytes(t.val), pos |-> t.pos] ELSE t

u64(buf, pos) ==
    LET t == take(buf, pos, 8)
    IN  IF t.ok THEN [ok |-> TRUE, val |-> from_be_bytes(t.val), pos |-> t.pos] ELSE t

\* c.u64()? as i64, as parse_value reads an Int.
u64_i64(buf, pos) ==
    LET t == take(buf, pos, 8)
    IN  IF t.ok THEN [ok |-> TRUE, val |-> u64_as_i64(t.val), pos |-> t.pos] ELSE t

string(buf, pos) ==
    LET l == u16(buf, pos)
    IN  IF ~l.ok THEN l
        ELSE LET t == take(buf, l.pos, l.val)
             IN  IF ~t.ok THEN t
                 ELSE LET u == from_utf8(t.val)
                      IN  IF u.valid THEN t ELSE Err(Utf8ErrorMsg(u))

(***************************************************************************)
(* Commands and results (commands.rs)                                      *)
(***************************************************************************)
CreateTable(table, columns) ==
    [op |-> "CreateTable", table |-> table, columns |-> columns]
InsertRow(table, values) ==
    [op |-> "InsertRow", table |-> table, values |-> values]
\* updates is a HashMap<String, Value>: a function from the column names.
UpdateRow(table, row_id, updates) ==
    [op |-> "UpdateRow", table |-> table, row_id |-> row_id, updates |-> updates]
SelectAll(table) == [op |-> "SelectAll", table |-> table]
GetTables == [op |-> "GetTables"]

ResOk == [kind |-> "Ok"]
ResRows(columns, rows) == [kind |-> "Rows", columns |-> columns, rows |-> rows]

\* HashMap::insert: a later value for the same key replaces the earlier one.
MapInsert(m, k, v) == [x \in (DOMAIN m) \cup {k} |-> IF x = k THEN v ELSE m[x]]

(***************************************************************************)
(* protocol.rs: parse_value, parse_command                                 *)
(***************************************************************************)
parse_value(buf, pos) ==
    LET t == u8(buf, pos)
    IN  IF ~t.ok THEN t
        ELSE IF t.val = TYPE_INT THEN
             LET r == u64_i64(buf, t.pos)
             IN  IF r.ok THEN [ok |-> TRUE, val |-> IntV(r.val), pos |-> r.pos] ELSE r
        ELSE IF t.val = TYPE_TEXT THEN
             LET r == string(buf, t.pos)
             IN  IF r.ok THEN [ok |-> TRUE, val |-> TextV(r.val), pos |-> r.pos] ELSE r
        ELSE IF t.val = TYPE_BOOL THEN
             LET r == u8(buf, t.pos)
             IN  IF r.ok THEN [ok |-> TRUE, val |-> BoolV(r.val # 0), pos |-> r.pos] ELSE r
        ELSE Err(MsgUnknownValueType)

(* The loops below run their body count times from left to right and stop *)
(* at the first error.  A run of count > 1 iterations is written as the    *)
(* first count \div 2 iterations followed by the rest, which is the same   *)
(* sequence of iterations and keeps the nesting logarithmic in count.      *)

\* One iteration of the loop of OP_CREATE_TABLE: a (name, type) pair.
parse_column(buf, pos, acc) ==
    LET name == string(buf, pos)
    IN  IF ~name.ok THEN name
        ELSE LET ty == u8(buf, name.pos)
             IN  IF ~ty.ok THEN ty
                 ELSE IF ty.val \notin {TYPE_INT, TYPE_TEXT, TYPE_BOOL}
                      THEN Err(MsgUnknownColumnType)
                 ELSE [ok |-> TRUE, pos |-> ty.pos,
                       val |-> Append(acc, << name.val,
                                   IF ty.val = TYPE_INT THEN "Int"
                                   ELSE IF ty.val = TYPE_TEXT THEN "Text" ELSE "Bool" >>)]

RECURSIVE parse_columns(_, _, _, _)
parse_columns(buf, pos, count, acc) ==
    IF count = 0 THEN [ok |-> TRUE, val |-> acc, pos |-> pos]
    ELSE IF count = 1 THEN parse_column(buf, pos, acc)
    ELSE LET first == parse_columns(buf, pos, count \div 2, acc)
         IN  IF ~first.ok THEN first
             ELSE parse_columns(buf, first.pos, count - (count \div 2), first.val)

\* The loop of OP_INSERT_ROW: values.push(parse_value(&mut c)?).
RECURSIVE parse_values(_, _, _, _)
parse_values(buf, pos, count, acc) ==
    IF count = 0 THEN [ok |-> TRUE, val |-> acc, pos |-> pos]
    ELSE IF count = 1 THEN
         LET v == parse_value(buf, pos)
         IN  IF ~v.ok THEN v
             ELSE [ok |-> TRUE, val |-> Append(acc, v.val), pos |-> v.pos]
    ELSE LET first == parse_values(buf, pos, count \div 2, acc)
         IN  IF ~first.ok THEN first
             ELSE parse_values(buf, first.pos, count - (count \div 2), first.val)

\* One iteration of the loop of OP_UPDATE_ROW: updates.insert(name, val).
parse_update(buf, pos, acc) ==
    LET name == string(buf, pos)
    IN  IF ~name.ok THEN name
        ELSE LET v == parse_value(buf, name.pos)
             IN  IF ~v.ok THEN v
                 ELSE [ok |-> TRUE, val |-> MapInsert(acc, name.val, v.val), pos |-> v.pos]

RECURSIVE parse_updates(_, _, _, _)
parse_updates(buf, pos, count, acc) ==
    IF count = 0 THEN [ok |-> TRUE, val |-> acc, pos |-> pos]
    ELSE IF count = 1 THEN parse_update(buf, pos, acc)
    ELSE LET first == parse_updates(buf, pos, count \div 2, acc)
         IN  IF ~first.ok THEN first
             ELSE parse_updates(buf, first.pos, count - (count \div 2), first.val)

parse_command(buf) ==
    LET opcode == u8(buf, 0)
    IN  IF ~opcode.ok THEN Err(opcode.err)
        ELSE IF opcode.val = OP_CREATE_TABLE THEN
             LET table == string(buf, opcode.pos)
             IN  IF ~table.ok THEN Err(table.err)
                 ELSE LET count == u8(buf, table.pos)
                      IN  IF ~count.ok THEN Err(count.err)
                          ELSE LET cols == parse_columns(buf, count.pos, count.val, << >>)
                               IN  IF ~cols.ok THEN Err(cols.err)
                                   ELSE [ok |-> TRUE, cmd |-> CreateTable(table.val, cols.val)]
        ELSE IF opcode.val = OP_INSERT_ROW THEN
             LET table == string(buf, opcode.pos)
             IN  IF ~table.ok THEN Err(table.err)
                 ELSE LET count == u8(buf, table.pos)
                      IN  IF ~count.ok THEN Err(count.err)
                          ELSE LET vals == parse_values(buf, count.pos, count.val, << >>)
                               IN  IF ~vals.ok THEN Err(vals.err)
                                   ELSE [ok |-> TRUE, cmd |-> InsertRow(table.val, vals.val)]
        ELSE IF opcode.val = OP_UPDATE_ROW THEN
             LET table == string(buf, opcode.pos)
             IN  IF ~table.ok THEN Err(table.err)
                 ELSE LET row_id == u64(buf, table.pos)
                      IN  IF ~row_id.ok THEN Err(row_id.err)
                          ELSE LET count == u8(buf, row_id.pos)
                               IN  IF ~count.ok THEN Err(count.err)
                                   ELSE LET ups == parse_updates(buf, count.pos, count.val, << >>)
                                        IN  IF ~ups.ok THEN Err(ups.err)
                                            ELSE [ok |-> TRUE,
                                                  cmd |-> UpdateRow(table.val, row_id.val, ups.val)]
        ELSE IF opcode.val = OP_SELECT_ALL THEN
             LET table == string(buf, opcode.pos)
             IN  IF ~table.ok THEN Err(table.err)
                 ELSE [ok |-> TRUE, cmd |-> SelectAll(table.val)]
        ELSE IF opcode.val = OP_GET_TABLES THEN [ok |-> TRUE, cmd |-> GetTables]
        ELSE Err(MsgUnknownOpcode)

(***************************************************************************)
(* protocol.rs: the encoders                                               *)
(***************************************************************************)
write_string(s) == to_be_bytes(as_u16(Len(s)), 2) \o s

encode_value(v) ==
    IF v.tag = "Int" THEN << TYPE_INT >> \o i64_to_be_bytes(v.i)
    ELSE IF v.tag = "Text" THEN << TYPE_TEXT >> \o write_string(v.s)
    ELSE << TYPE_BOOL >> \o (IF v.b THEN << 1 >> ELSE << 0 >>)

TypeTag(col_type) ==
    IF col_type = "Int" THEN TYPE_INT
    ELSE IF col_type = "Text" THEN TYPE_TEXT ELSE TYPE_BOOL

\* What a loop that appends parts[1], parts[2], ... to the buffer leaves in
\* it (joined pairwise, so that a long loop does not nest deeply).
RECURSIVE JoinRange(_, _, _)
JoinRange(parts, lo, hi) ==
    IF lo > hi THEN << >>
    ELSE IF lo = hi THEN parts[lo]
    ELSE LET mid == (lo + hi) \div 2
         IN  JoinRange(parts, lo, mid) \o JoinRange(parts, mid + 1, hi)

Join(parts) == JoinRange(parts, 1, Len(parts))

encode_columns(columns) ==
    Join([k \in 1..Len(columns) |->
            write_string(columns[k][1]) \o << TypeTag(columns[k][2]) >>])

encode_values(values) == Join([k \in 1..Len(values) |-> encode_value(values[k])])

\* `for (col, val) in updates`: order is the sequence of keys in the order the
\* HashMap's iterator yields them.
encode_updates(updates, order) ==
    Join([k \in 1..Len(order) |->
            write_string(order[k]) \o encode_value(updates[order[k]])])

encode_command(cmd, order) ==
    IF cmd.op = "GetTables" THEN << OP_GET_TABLES >>
    ELSE IF cmd.op = "CreateTable" THEN
         << OP_CREATE_TABLE >> \o write_string(cmd.table)
         \o << as_u8(Len(cmd.columns)) >> \o encode_columns(cmd.columns)
    ELSE IF cmd.op = "InsertRow" THEN
         << OP_INSERT_ROW >> \o write_string(cmd.table)
         \o << as_u8(Len(cmd.values)) >> \o encode_values(cmd.values)
    ELSE IF cmd.op = "UpdateRow" THEN
         << OP_UPDATE_ROW >> \o write_string(cmd.table) \o to_be_bytes(cmd.row_id, 8)
         \o << as_u8(Cardinality(DOMAIN cmd.updates)) >>
         \o encode_updates(cmd.updates, order)
    ELSE << OP_SELECT_ALL >> \o write_string(cmd.table)

encode_error(msg) == << RESP_ERR >> \o to_be_bytes(as_u16(Len(msg)), 2) \o msg

encode_names(columns) == Join([k \in 1..Len(columns) |-> write_string(columns[k])])

encode_row_list(rows) ==
    Join([k \in 1..Len(rows) |-> to_be_bytes(rows[k][1], 8) \o encode_values(rows[k][2])])

\* rows.len() as u32: the models' row counts are far below 2^32.
encode_rows(columns, rows) ==
    << RESP_OK >> \o << as_u8(Len(columns)) >> \o encode_names(columns)
    \o to_be_bytes(Len(rows), 4) \o encode_row_list(rows)

encode_result(result) ==
    IF result.kind = "Ok" THEN << RESP_OK >>
    ELSE encode_rows(result.columns, result.rows)

\* main.rs calls protocol::encode_ok(), which protocol.rs does not define:
\* the unit success frame is the single status byte 0x00.
encode_ok == << RESP_OK >>

(***************************************************************************)
(* protocol.rs: decode_response.  The function indexes and slices the      *)
(* buffer without a length check; an index or a slice beyond the end of    *)
(* the buffer panics, which the model reports as the outcome "panic".      *)
(*   [out |-> "ok", result |-> r]   Ok(r)                                  *)
(*   [out |-> "err", msg |-> m]     Err(m)                                 *)
(*   [out |-> "panic"]              the thread panicked                    *)
(***************************************************************************)
Panic == [out |-> "panic"]
DecErr(m) == [out |-> "err", msg |-> m]

\* data[pos], with pos counted from 0: in bounds iff pos < data.len().
InBounds(data, pos) == pos < Len(data)
\* &data[from..to]: in bounds iff from <= to <= data.len().
Slice(data, from, to) == SubSeq(data, from + 1, to)

\* One iteration of the loop over the column names.
decode_column(data, pos, acc) ==
    IF ~InBounds(data, pos + 1) THEN Panic
    ELSE LET len == from_be_bytes(Slice(data, pos, pos + 2))
         IN  IF pos + 2 + len > Len(data) THEN Panic
             ELSE [out |-> "ok", pos |-> pos + 2 + len,
                   val |-> Append(acc, from_utf8_lossy(Slice(data, pos + 2, pos + 2 + len)))]

\* The loop over col_count column names (halved as the parse loops are).
RECURSIVE decode_columns(_, _, _, _)
decode_columns(data, pos, count, acc) ==
    IF count = 0 THEN [out |-> "ok", val |-> acc, pos |-> pos]
    ELSE IF count = 1 THEN decode_column(data, pos, acc)
    ELSE LET first == decode_columns(data, pos, count \div 2, acc)
         IN  IF first.out # "ok" THEN first
             ELSE decode_columns(data, first.pos, count - (count \div 2), first.val)

\* One tagged value of a row.
decode_value(data, pos) ==
    IF ~InBounds(data, pos) THEN Panic
    ELSE LET val_type == data[pos + 1]
             p == pos + 1
         IN  IF val_type = TYPE_INT THEN
                  IF p + 8 > Len(data) THEN Panic
                  ELSE [out |-> "ok", val |-> IntV(u64_as_i64(Slice(data, p, p + 8))),
                        pos |-> p + 8]
             ELSE IF val_type = TYPE_TEXT THEN
                  IF ~InBounds(data, p + 1) THEN Panic
                  ELSE LET len == from_be_bytes(Slice(data, p, p + 2))
                       IN  IF p + 2 + len > Len(data) THEN Panic
                           ELSE [out |-> "ok",
                                 val |-> TextV(from_utf8_lossy(Slice(data, p + 2, p + 2 + len))),
                                 pos |-> p + 2 + len]
             ELSE IF val_type = TYPE_BOOL THEN
                  IF ~InBounds(data, p) THEN Panic
                  ELSE [out |-> "ok", val |-> BoolV(data[p + 1] # 0), pos |-> p + 1]
             ELSE DecErr(MsgUnknownValueType)

\* The inner loop: col_count values of one row.
RECURSIVE decode_values(_, _, _, _)
decode_values(data, pos, count, acc) ==
    IF count = 0 THEN [out |-> "ok", val |-> acc, pos |-> pos]
    ELSE IF count = 1 THEN
         LET v == decode_value(data, pos)
         IN  IF v.out # "ok" THEN v
             ELSE [out |-> "ok", val |-> Append(acc, v.val), pos |-> v.pos]
    ELSE LET first == decode_values(data, pos, count \div 2, acc)
         IN  IF first.out # "ok" THEN first
             ELSE decode_values(data, first.pos, count - (count \div 2), first.val)

\* One iteration of the outer loop: a row id and col_count values.
decode_row(data, pos, col_count, acc) ==
    IF pos + 8 > Len(data) THEN Panic
    ELSE LET row_id == from_be_bytes(Slice(data, pos, pos + 8))
             vs == decode_values(data, pos + 8, col_count, << >>)
         IN  IF vs.out # "ok" THEN vs
             ELSE [out |-> "ok", val |-> Append(acc, << row_id, vs.val >>), pos |-> vs.pos]

\* The outer loop: row_count rows.
RECURSIVE decode_rows(_, _, _, _, _)
decode_rows(data, pos, count, col_count, acc) ==
    IF count = 0 THEN [out |-> "ok", val |-> acc, pos |-> pos]
    ELSE IF count = 1 THEN decode_row(data, pos, col_count, acc)
    ELSE LET first == decode_rows(data, pos, count \div 2, col_count, acc)
         IN  IF first.out # "ok" THEN first
             ELSE decode_rows(data, first.pos, count - (count \div 2), col_count, first.val)

\* A row count of 2^31 or more cannot be met by any buffer the model builds
\* (each row takes at least 8 bytes): the read of the first missing row
\* panics, if the allocation of the row vector has not failed before.
RowCountTooLarge(data, pos) == data[pos + 1] >= 128

decode_response(data) ==
    IF Len(data) = 0 THEN DecErr(MsgEmptyResponse)
    ELSE IF data[1] = RESP_OK THEN
         IF Len(data) = 1 THEN [out |-> "ok", result |-> ResOk]
         ELSE LET col_count == data[2]
                  cols == decode_columns(data, 2, col_count, << >>)
              IN  IF cols.out # "ok" THEN cols
                  ELSE IF ~InBounds(data, cols.pos + 3) THEN Panic
                  ELSE IF RowCountTooLarge(data, cols.pos) THEN Panic
                  ELSE LET row_count == from_be_bytes(Slice(data, cols.pos, cols.pos + 4))
                           rows == decode_rows(data, cols.pos + 4, row_count, col_count, << >>)
                       IN  IF rows.out # "ok" THEN rows
                           ELSE [out |-> "ok", result |-> ResRows(cols.val, rows.val)]
    ELSE IF data[1] = RESP_ERR THEN
         IF ~InBounds(data, 2) THEN Panic
         ELSE LET len == from_be_bytes(Slice(data, 1, 3))
              IN  IF 3 + len > Len(data) THEN Panic
                  ELSE DecErr(from_utf8_lossy(Slice(data, 3, 3 + len)))
    ELSE DecErr(MsgUnknownResponseType)

(***************************************************************************)
(* db.rs, commands.rs: the table store                                     *)
(*   Database  [tables |-> function from table names to tables]            *)
(*   Table     [name, columns (sequence of [name, col_type]),              *)
(*              rows (function from row ids to value sequences),           *)
(*              next_row_id]                                               *)
(* execute returns [db |-> the store afterwards, res |-> Ok or Err].       *)
(***************************************************************************)
EmptyMap == << >>
Database_default == [tables |-> EmptyMap]

Ok(result) == [ok |-> TRUE, result |-> result]

\* The sequences that enumerate the set S once each: the orders in which a
\* HashMap with key set S can be iterated.
Perms(S) ==
    { f \in [1..Cardinality(S) -> S] : \A i, j \in DOMAIN f : i # j => f[i] # f[j] }

\* A type check that accepts every value in every column.
value_matches_type_any(value, col_type) == TRUE

value_matches_type(value, col_type) ==
    \/ value.tag = "Int" /\ col_type = "Int"
    \/ value.tag = "Text" /\ col_type = "Text"
    \/ value.tag = "Bool" /\ col_type = "Bool"

\* The ids from the largest down: a sort by the key reversed.
RECURSIVE SortedIds_descending(_)
SortedIds_descending(ids) ==
    IF ids = {} THEN << >>
    ELSE LET m == CHOOSE x \in ids : \A y \in ids : x >= y
         IN  << m >> \o SortedIds_descending(ids \ {m})

RECURSIVE SortedIds(_)
SortedIds(ids) ==
    IF ids = {} THEN << >>
    ELSE LET m == CHOOSE x \in ids : \A y \in ids : x <= y
         IN  << m >> \o SortedIds(ids \ {m})

\* A select that returns no row but the one of the smallest id.
select_all_first_row_only(db, table) ==
    IF table \notin DOMAIN db.tables THEN [db |-> db, res |-> Err(MsgTableNotFound)]
    ELSE LET t == db.tables[table]
             columns == [k \in 1..Len(t.columns) |-> t.columns[k].name]
             ids == SortedIds(DOMAIN t.rows)
             rows == [k \in 1..(IF ids = << >> THEN 0 ELSE 1) |-> << ids[k], t.rows[ids[k]] >>]
         IN  [db |-> db, res |-> Ok(ResRows(columns, rows))]

select_all(db, table) ==
    IF table \notin DOMAIN db.tables THEN [db |-> db, res |-> Err(MsgTableNotFound)]
    ELSE LET t == db.tables[table]
             columns == [k \in 1..Len(t.columns) |-> t.columns[k].name]
             ids == SortedIds(DOMAIN t.rows)
             rows == [k \in 1..Len(ids) |-> << ids[k], t.rows[ids[k]] >>]
         IN  [db |-> db, res |-> Ok(ResRows(columns, rows))]

\* A create that puts the new table in the place of one of the same name.
create_table_replace(db, table, columns) ==
    [db |-> [tables |-> MapInsert(db.tables, table,
                                  [name |-> table,
                                   columns |-> [k \in 1..Len(columns) |->
                                                   [name |-> columns[k][1],
                                                    col_type |-> columns[k][2]]],
                                   rows |-> EmptyMap,
                                   next_row_id |-> 1])],
     res |-> IF table \in DOMAIN db.tables THEN Err(MsgTableExists) ELSE Ok(ResOk)]

create_table(db, table, columns) ==
    IF table \in DOMAIN db.tables THEN [db |-> db, res |-> Err(MsgTableExists)]
    ELSE LET table_obj ==
                 [name |-> table,
                  columns |-> [k \in 1..Len(columns) |->
                                  [name |-> columns[k][1], col_type |-> columns[k][2]]],
                  rows |-> EmptyMap,
                  next_row_id |-> 1]
         IN  [db |-> [tables |-> MapInsert(db.tables, table, table_obj)], res |-> Ok(ResOk)]

\* The last position at which the value does not match its column's type.
FirstMismatch_rightmost(values, columns) ==
    LET bad == { k \in 1..Len(values) : ~value_matches_type(values[k], columns[k].col_type) }
    IN  IF bad = {} THEN 0 ELSE CHOOSE k \in bad : \A j \in bad : k >= j

\* The first position at which the value does not match its column's type;
\* zip stops at the shorter of the two, and the lengths are equal here.
FirstMismatch(values, columns) ==
    LET bad == { k \in 1..Len(values) : ~value_matches_type(values[k], columns[k].col_type) }
    IN  IF bad = {} THEN 0 ELSE CHOOSE k \in bad : \A j \in bad : k <= j

\* An insert that leaves next_row_id as it was.
insert_row_same_id(db, table, values) ==
    IF table \notin DOMAIN db.tables THEN [db |-> db, res |-> Err(MsgTableNotFound)]
    ELSE LET t == db.tables[table]
         IN  IF Len(values) # Len(t.columns)
             THEN [db |-> db, res |-> Err(MsgColumnCountMismatch)]
             ELSE LET k == FirstMismatch(values, t.columns)
                  IN  IF k # 0
                      THEN [db |-> db,
                            res |-> Err(MsgTypeMismatchPrefix \o t.columns[k].name)]
                      ELSE [db |-> [tables |->
                                       MapInsert(db.tables, table,
                                                 [t EXCEPT !.rows = MapInsert(t.rows, t.next_row_id,
                                                                              values)])],
                            res |-> Ok(ResOk)]

\* An insert that takes the row id before it checks the types.
insert_row_id_taken_early(db, table, values) ==
    IF table \notin DOMAIN db.tables THEN [db |-> db, res |-> Err(MsgTableNotFound)]
    ELSE LET t == db.tables[table]
         IN  IF Len(values) # Len(t.columns)
             THEN [db |-> db, res |-> Err(MsgColumnCountMismatch)]
             ELSE LET k == FirstMismatch(values, t.columns)
                      row_id == t.next_row_id
                  IN  IF k # 0
                      THEN [db |-> [tables |->
                                       MapInsert(db.tables, table,
                                                 [t EXCEPT !.next_row_id = row_id + 1])],
                            res |-> Err(MsgTypeMismatchPrefix \o t.columns[k].name)]
                      ELSE [db |-> [tables |->
                                       MapInsert(db.tables, table,
                                                 [t EXCEPT !.next_row_id = row_id + 1,
                                                           !.rows = MapInsert(t.rows, row_id,
                                                                              values)])],
                            res |-> Ok(ResOk)]

insert_row(db, table, values) ==
    IF table \notin DOMAIN db.tables THEN [db |-> db, res |-> Err(MsgTableNotFound)]
    ELSE LET t == db.tables[table]
         IN  IF Len(values) # Len(t.columns)
             THEN [db |-> db, res |-> Err(MsgColumnCountMismatch)]
             ELSE LET k == FirstMismatch(values, t.columns)
                  IN  IF k # 0
                      THEN [db |-> db,
                            res |-> Err(MsgTypeMismatchPrefix \o t.columns[k].name)]
                      ELSE LET row_id == t.next_row_id
                               t2 == [t EXCEPT !.next_row_id = row_id + 1,
                                               !.rows = MapInsert(t.rows, row_id, values)]
                           IN  [db |-> [tables |-> MapInsert(db.tables, table, t2)],
                                res |-> Ok(ResOk)]

\* The last column of the name, 0 when there is none.
Position_last(columns, col_name) ==
    LET hit == { k \in 1..Len(columns) : columns[k].name = col_name }
    IN  IF hit = {} THEN 0 ELSE CHOOSE k \in hit : \A j \in hit : k >= j

\* columns.iter().position(|c| c.name == col_name): 0 when there is none.
Position(columns, col_name) ==
    LET hit == { k \in 1..Len(columns) : columns[k].name = col_name }
    IN  IF hit = {} THEN 0 ELSE CHOOSE k \in hit : \A j \in hit : k <= j

\* The loop of update_row over the updates, in the iterator's order: the
\* row is assigned in place, so an early return leaves what was assigned.
RECURSIVE update_loop(_, _, _, _)
update_loop(columns, row, updates, order) ==
    IF order = << >> THEN [row |-> row, res |-> Ok(ResOk)]
    ELSE LET col_name == Head(order)
             new_value == updates[col_name]
             index == Position(columns, col_name)
         IN  IF index = 0 THEN [row |-> row, res |-> Err(MsgColumnNotFound)]
             ELSE IF ~value_matches_type(new_value, columns[index].col_type)
                  THEN [row |-> row, res |-> Err(MsgTypeMismatchPrefix \o col_name)]
             ELSE update_loop(columns, [row EXCEPT ![index] = new_value],
                              updates, Tail(order))

\* An update that makes the row it does not find.
update_row_makes_row(db, table, row_id, updates, order) ==
    IF table \notin DOMAIN db.tables THEN [db |-> db, res |-> Err(MsgTableNotFound)]
    ELSE LET t == db.tables[table]
         IN  IF row_id \notin DOMAIN t.rows
             THEN [db |-> [tables |->
                              MapInsert(db.tables, table,
                                        [t EXCEPT !.rows = MapInsert(t.rows, row_id, << >>)])],
                   res |-> Err(MsgRowNotFound)]
             ELSE LET u == update_loop(t.columns, t.rows[row_id], updates, order)
                      t2 == [t EXCEPT !.rows = MapInsert(t.rows, row_id, u.row)]
                  IN  [db |-> [tables |-> MapInsert(db.tables, table, t2)], res |-> u.res]

\* An update that writes the row only when every entry was accepted.
update_row_atomic(db, table, row_id, updates, order) ==
    IF table \notin DOMAIN db.tables THEN [db |-> db, res |-> Err(MsgTableNotFound)]
    ELSE LET t == db.tables[table]
         IN  IF row_id \notin DOMAIN t.rows THEN [db |-> db, res |-> Err(MsgRowNotFound)]
             ELSE LET u == update_loop(t.columns, t.rows[row_id], updates, order)
                      t2 == [t EXCEPT !.rows = MapInsert(t.rows, row_id, u.row)]
                  IN  IF u.res.ok
                      THEN [db |-> [tables |-> MapInsert(db.tables, table, t2)], res |-> u.res]
                      ELSE [db |-> db, res |-> u.res]

update_row(db, table, row_id, updates, order) ==
    IF table \notin DOMAIN db.tables THEN [db |-> db, res |-> Err(MsgTableNotFound)]
    ELSE LET t == db.tables[table]
         IN  IF row_id \notin DOMAIN t.rows THEN [db |-> db, res |-> Err(MsgRowNotFound)]
             ELSE LET u == update_loop(t.columns, t.rows[row_id], updates, order)
                      t2 == [t EXCEPT !.rows = MapInsert(t.rows, row_id, u.row)]
                  IN  [db |-> [tables |-> MapInsert(db.tables, table, t2)], res |-> u.res]

ColumnTypeName(col_type) ==
    IF col_type = "Int" THEN StrInt ELSE IF col_type = "Text" THEN StrText ELSE StrBool

\* Rows numbered from 1 for every table: the counter reset in the outer loop.
TableRows_from_one(table_name, t, id) ==
    [k \in 1..Len(t.columns) |->
        << k,
           << TextV(table_name), TextV(t.columns[k].name),
              TextV(ColumnTypeName(t.columns[k].col_type)) >> >>]

\* The rows get_tables pushes for one table, numbered from id.
TableRows(table_name, t, id) ==
    [k \in 1..Len(t.columns) |->
        << id + k - 1,
           << TextV(table_name), TextV(t.columns[k].name),
              TextV(ColumnTypeName(t.columns[k].col_type)) >> >>]

\* `for (table_name, table) in &self.tables`: order is the iterator's order.
RECURSIVE get_tables_rows(_, _, _)
get_tables_rows(db, order, id) ==
    IF order = << >> THEN << >>
    ELSE LET t == db.tables[Head(order)]
         IN  TableRows(Head(order), t, id)
             \o get_tables_rows(db, Tail(order), id + Len(t.columns))

get_tables(db, order) ==
    Ok(ResRows(<< StrTableName, StrColumnName, StrColumnType >>,
               get_tables_rows(db, order, 1)))

\* commands.rs declares DbCommand::GetTables and Database::get_tables; the
\* arm of execute that joins them is not in db.rs.
execute_get_tables(db, order) == [db |-> db, res |-> get_tables(db, order)]

\* The iteration orders a command's execution can meet: of the update set
\* for UpdateRow, of the table map for GetTables.
Orders(db, cmd) ==
    IF cmd.op = "UpdateRow" THEN Perms(DOMAIN cmd.updates)
    ELSE IF cmd.op = "GetTables" THEN Perms(DOMAIN db.tables)
    ELSE { << >> }

execute(db, cmd, order) ==
    IF cmd.op = "SelectAll" THEN select_all(db, cmd.table)
    ELSE IF cmd.op = "CreateTable" THEN create_table(db, cmd.table, cmd.columns)
    ELSE IF cmd.op = "InsertRow" THEN insert_row(db, cmd.table, cmd.values)
    ELSE IF cmd.op = "UpdateRow"
         THEN update_row(db, cmd.table, cmd.row_id, cmd.updates, order)
    ELSE execute_get_tables(db, order)

(***************************************************************************)
(* main.rs, listener.rs, web.rs: the dispatch actor and its producers      *)
(*                                                                         *)
(* Tasks.  One task per TCP connection (main.rs 81-105, listener.rs        *)
(* 21-53), one per WebSocket session (web.rs handle_socket), the forwarder *)
(* of web commands (main.rs 29-33) and the database logic loop, the actor  *)
(* (main.rs 44-72).  A step of the model is what a task does between two   *)
(* await points.                                                           *)
(*                                                                         *)
(* Channels.  rx_queue is the mpsc channel (tx, rx) of main.rs 22 and      *)
(* web_queue the channel (web_tx, web_rx) of main.rs 25.  A oneshot        *)
(* channel is named by its slot << producer, n >>, the n-th request of the *)
(* producer, and is in one of the states                                   *)
(*   "none"     not created          "open"    created, nothing sent       *)
(*   "full"     a value was sent     "taken"   the receiver has the value  *)
(*   "dropped"  the receiver was dropped with nothing sent                 *)
(*   "failed"   send found the receiver dropped and returned the value     *)
(*   "lost"     the sender was dropped with nothing sent                   *)
(***************************************************************************)
VARIABLES
    conn,        \* each producer task's position
    sent,        \* each producer's requests so far, in the order it made them
    oneshot,     \* each slot's state
    sends,       \* each slot's send calls: the values, in call order
    rx_queue,    \* the items in the channel (tx, rx)
    web_queue,   \* the items in the channel (web_tx, web_rx)
    fwd,         \* the forwarder task: its position and the command it holds
    actor,       \* "running", "done" (left its loop) or "cancelled"
    db,          \* the Database the actor owns
    history,     \* the items the actor has dequeued, in dequeue order
    acceptor,    \* main's accept loop, which owns tx: "accepting" or "stopped"
    web_server,  \* the web server task, which owns web_tx: "serving" or "stopped"
    codec,       \* a value on its way through the codec: see the codec section
    call,        \* the latest direct call of Database::execute: see the store section
    reader       \* a task reading one frame off a socket: see the frame section

actorVars ==
    << conn, sent, oneshot, sends, rx_queue, web_queue, fwd, actor, db, history,
       acceptor, web_server >>

\* The capacity of both channels, channel(1024) in the code, scaled down so
\* that a handful of producers can fill them.
QueueCap == 1
\* The number of requests all producers together make in a run.
MaxReqs == 2

TcpIds == {"t1"}
WebIds == {"w1"}
Producers == TcpIds \cup WebIds
SlotIds == Producers \X (1..MaxReqs)

NameT == << 116 >>
NameA == << 97 >>
NameB == << 98 >>

CmdCreate == CreateTable(NameT, << << NameA, "Int" >>, << NameB, "Text" >> >>)
CmdInsert == InsertRow(NameT, << IntV(1), TextV(NameA) >>)
CmdInsertBad == InsertRow(NameT, << BoolV(TRUE), TextV(NameA) >>)
CmdUpdate == UpdateRow(NameT, 1, (NameA :> IntV(2)) @@ (NameB :> IntV(3)))

\* Frames a TCP client sends: encoded commands, and buffers that do not
\* decode (unknown opcode, truncated, unknown type tag, invalid UTF-8).
FrameBadOpcode == << 9 >>
FrameTruncated == << OP_SELECT_ALL, 0, 2, 116 >>
FrameBadTag == << OP_INSERT_ROW, 0, 1, 116, 1, 7 >>
FrameBadUtf8 == << OP_SELECT_ALL, 0, 1, 255 >>

\* A TCP client creates the table or sends a frame that does not decode.
TcpFrames(p) == { encode_command(CmdCreate, << >>), FrameBadOpcode }

\* Commands a WebSocket session submits, each with the order in which
\* to_db_command collected the updates (web.rs 74-79).
WebCmds ==
    { [cmd |-> CmdInsert, order |-> << >>] }
    \cup { [cmd |-> CmdUpdate, order |-> o] : o \in Perms(DOMAIN CmdUpdate.updates) }

Issued == Len(sent["t1"]) + Len(sent["w1"])

CurSlot(p) == << p, Len(sent[p]) >>

\* A channel that always has a free permit.
has_capacity_unbounded(queue) == TRUE

\* mpsc::Sender::send completes when the channel has a free permit.
has_capacity(queue) == Len(queue) < QueueCap

\* The producer handles of the channel (tx, rx): the accept loop's tx, the
\* forwarder's tx_for_web and the clone of every live connection task.
TxHandles ==
    (IF acceptor = "accepting" THEN {"main"} ELSE {})
    \cup (IF fwd.pc \in {"recv", "send"} THEN {"forwarder"} ELSE {})
    \cup { p \in TcpIds : conn[p] \in {"read", "send", "wait"} }

\* The producer handles of (web_tx, web_rx): the router's state and the
\* clone of the Arc every live session holds.
WebTxHandles ==
    (IF web_server = "serving" THEN {"router"} ELSE {})
    \cup { p \in WebIds : conn[p] \in {"read", "send", "wait"} }

\* The tasks and channels as main sets them up, before any task runs.
TasksIdle ==
    /\ conn = [p \in Producers |-> "new"]
    /\ sent = [p \in Producers |-> << >>]
    /\ oneshot = [s \in SlotIds |-> "none"]
    /\ sends = [s \in SlotIds |-> << >>]
    /\ rx_queue = << >>
    /\ web_queue = << >>
    /\ fwd = [pc |-> "recv"]
    /\ actor = "running"
    /\ history = << >>
    /\ acceptor = "accepting"
    /\ web_server = "serving"

\* The state main sets up before any task runs.
ActorIdle ==
    /\ TasksIdle
    /\ db = Database_default

\* No direct call of Database::execute has been made.
NoCall == [n |-> 0]

\* No task is reading a frame.
NoReader == [pc |-> "idle"]

InitActor ==
    /\ ActorIdle
    /\ codec = [phase |-> "idle"]
    /\ call = NoCall
    /\ reader = NoReader

(***************************************************************************)
(* The actor's loop body (main.rs 52-70)                                   *)
(***************************************************************************)
\* The inner match of the Command::Tcp arm (main.rs 54-60), on what
\* db.execute returned.
tcp_executed(e) ==
    [db |-> e.db,
     response |-> IF ~e.res.ok THEN encode_error(e.res.err)
                  ELSE IF e.res.result.kind = "Ok" THEN encode_ok
                  ELSE encode_rows(e.res.result.columns, e.res.result.rows)]

\* An outer match that, on a decode error, empties the store and reports
\* success.
tcp_parsed_error_resets(dbv, parsed, order) ==
    IF parsed.ok THEN tcp_executed(execute(dbv, parsed.cmd, order))
    ELSE [db |-> Database_default, response |-> encode_ok]

\* The outer match (main.rs 53-62), on what parse_command returned.
tcp_parsed(dbv, parsed, order) ==
    IF parsed.ok THEN tcp_executed(execute(dbv, parsed.cmd, order))
    ELSE [db |-> dbv, response |-> encode_error(MsgProtocolErrorPrefix \o parsed.err)]

\* The Command::Tcp arm up to the send: the store afterwards and the bytes.
tcp_response(dbv, data, order) == tcp_parsed(dbv, parse_command(data), order)

\* The send of the Command::Tcp arm (main.rs 64).
tcp_send(respond_to, r) == [db |-> r.db, replies |-> << << respond_to, r.response >> >>]

\* The send of the Command::Web arm (main.rs 68).
web_send(respond_to, result) ==
    [db |-> result.db, replies |-> << << respond_to, result.res >> >>]

\* A pass that executes a web command and sends nothing back.
handle_no_web_reply(dbv, item, order) ==
    IF item.kind = "Tcp"
    THEN LET r == tcp_response(dbv, item.data, order)
         IN  [db |-> r.db, replies |-> << << item.respond_to, r.response >> >>]
    ELSE [db |-> execute(dbv, item.cmd, order).db, replies |-> << >>]

\* A pass that sends every reply twice.
handle_reply_twice(dbv, item, order) ==
    IF item.kind = "Tcp"
    THEN LET r == tcp_response(dbv, item.data, order)
         IN  [db |-> r.db, replies |-> << << item.respond_to, r.response >>,
                                          << item.respond_to, r.response >> >>]
    ELSE LET result == execute(dbv, item.cmd, order)
         IN  [db |-> result.db, replies |-> << << item.respond_to, result.res >>,
                                               << item.respond_to, result.res >> >>]

\* A pass that answers from the store but does not keep what it wrote.
handle_keep_store(dbv, item, order) ==
    IF item.kind = "Tcp"
    THEN [db |-> dbv,
          replies |-> << << item.respond_to, tcp_response(dbv, item.data, order).response >> >>]
    ELSE [db |-> dbv, replies |-> << << item.respond_to, execute(dbv, item.cmd, order).res >> >>]

\* One pass of the loop body over a dequeued item: the store afterwards and
\* the send calls it makes, each << slot, value >>.
handle(dbv, item, order) ==
    IF item.kind = "Tcp"
    THEN tcp_send(item.respond_to, tcp_response(dbv, item.data, order))
    ELSE web_send(item.respond_to, execute(dbv, item.cmd, order))

\* The iteration orders a pass over a decoded command can meet.
ParsedOrders(dbv, parsed) == IF parsed.ok THEN Orders(dbv, parsed.cmd) ELSE { << >> }

\* The iteration orders the pass over an item can meet.  A web command
\* carries its updates as a Vec, in the order the session collected them.
ItemOrders(dbv, item) ==
    IF item.kind = "Web" THEN { item.order }
    ELSE ParsedOrders(dbv, parse_command(item.data))

\* oneshot::Sender::send: the value is stored unless the receiver is gone,
\* in which case it is handed back; `let _ =` discards that.
oneshot_send(state) ==
    IF state = "open" THEN "full" ELSE IF state = "dropped" THEN "failed" ELSE state

RECURSIVE SendAll(_, _)
SendAll(os, replies) ==
    IF replies = << >> THEN os
    ELSE SendAll([os EXCEPT ![Head(replies)[1]] = oneshot_send(@)], Tail(replies))

RECURSIVE LogAll(_, _)
LogAll(log, replies) ==
    IF replies = << >> THEN log
    ELSE LogAll([log EXCEPT ![Head(replies)[1]] = Append(@, Head(replies)[2])],
                Tail(replies))

\* rx.recv() returns None: every sender is dropped and the queue is empty.
recv_none(queue, handles) == handles = {} /\ queue = << >>

\* The slots after the items of a dropped receiver half are dropped with it:
\* each item's oneshot sender goes without a send.
SenderDropped(os, items) ==
    [s \in SlotIds |->
        IF os[s] = "open" /\ \E k \in DOMAIN items : items[k].respond_to = s
        THEN "lost" ELSE os[s]]

\* A loop whose send is unwrapped: a send that fails ends the actor.
ActorStep_send_unwrap ==
    /\ actor = "running"
    /\ rx_queue # << >>
    /\ \E order \in ItemOrders(db, Head(rx_queue)) :
           /\ db' = handle(db, Head(rx_queue), order).db
           /\ oneshot' = SendAll(oneshot, handle(db, Head(rx_queue), order).replies)
           /\ sends' = LogAll(sends, handle(db, Head(rx_queue), order).replies)
           /\ history' = Append(history, [item |-> Head(rx_queue), order |-> order])
    /\ actor' = IF oneshot[Head(rx_queue).respond_to] = "dropped" THEN "done" ELSE "running"
    /\ rx_queue' = Tail(rx_queue)
    /\ UNCHANGED << codec, call, reader, conn, sent, web_queue, fwd, acceptor, web_server >>

\* What a pass h over the item leaves behind.
ActorPass(item, order, h) ==
    /\ db' = h.db
    /\ oneshot' = SendAll(oneshot, h.replies)
    /\ sends' = LogAll(sends, h.replies)
    /\ history' = Append(history, [item |-> item, order |-> order])

\* while let Some(cmd) = rx.recv().await { match cmd { ... } }
ActorStep ==
    /\ actor = "running"
    /\ rx_queue # << >>
    /\ \E order \in ItemOrders(db, Head(rx_queue)) :
           ActorPass(Head(rx_queue), order, handle(db, Head(rx_queue), order))
    /\ rx_queue' = Tail(rx_queue)
    /\ UNCHANGED << codec, call, reader, conn, sent, web_queue, fwd, actor, acceptor, web_server >>

\* The loop ends when recv returns None.
ActorExit ==
    /\ actor = "running"
    /\ recv_none(rx_queue, TxHandles)
    /\ actor' = "done"
    /\ UNCHANGED << codec, call, reader, conn, sent, oneshot, sends, rx_queue, web_queue, fwd, db, history,
                    acceptor, web_server >>

(***************************************************************************)
(* The forwarder (main.rs 29-33)                                           *)
(***************************************************************************)
FwdRecv ==
    /\ fwd.pc = "recv"
    /\ web_queue # << >>
    /\ fwd' = [pc |-> "send", cmd |-> Head(web_queue)]
    /\ web_queue' = Tail(web_queue)
    /\ UNCHANGED << codec, call, reader, conn, sent, oneshot, sends, rx_queue, actor, db, history,
                    acceptor, web_server >>

\* tx_for_web.send(Command::Web(cmd)).await; the actor cannot have left its
\* loop while tx_for_web is alive, so the send does not fail.
FwdSend ==
    /\ fwd.pc = "send"
    /\ actor = "running"
    /\ has_capacity(rx_queue)
    /\ rx_queue' = Append(rx_queue, [kind |-> "Web", cmd |-> fwd.cmd.cmd,
                                     order |-> fwd.cmd.order,
                                     respond_to |-> fwd.cmd.respond_to])
    /\ fwd' = [pc |-> "recv"]
    /\ UNCHANGED << codec, call, reader, conn, sent, oneshot, sends, web_queue, actor, db, history,
                    acceptor, web_server >>

\* The send fails because rx is gone; `let _ =` drops the error and, with it,
\* the command and its oneshot sender.
FwdSendClosed ==
    /\ fwd.pc = "send"
    /\ actor = "cancelled"
    /\ fwd' = [pc |-> "recv"]
    /\ oneshot' = SenderDropped(oneshot, << fwd.cmd >>)
    /\ UNCHANGED << codec, call, reader, conn, sent, sends, rx_queue, web_queue, actor, db, history,
                    acceptor, web_server >>

\* web_rx.recv() returns None: the task ends and drops tx_for_web.
FwdExit ==
    /\ fwd.pc = "recv"
    /\ recv_none(web_queue, WebTxHandles)
    /\ fwd' = [pc |-> "done"]
    /\ UNCHANGED << codec, call, reader, conn, sent, oneshot, sends, rx_queue, web_queue, actor, db, history,
                    acceptor, web_server >>

(***************************************************************************)
(* A TCP connection task (main.rs 77-105, listener.rs 17-53)               *)
(***************************************************************************)
\* listener.accept() yields a socket; the task gets tx.clone().
Accept(p) ==
    /\ acceptor = "accepting"
    /\ conn[p] = "new"
    /\ conn' = [conn EXCEPT ![p] = "read"]
    /\ UNCHANGED << codec, call, reader, sent, oneshot, sends, rx_queue, web_queue, fwd, actor, db, history,
                    acceptor, web_server >>

\* read_frame returns Ok(Some(frame)); the task makes the oneshot channel.
TcpRead(p, frame) ==
    /\ conn[p] = "read"
    /\ Issued < MaxReqs
    /\ sent' = [sent EXCEPT ![p] = Append(@, [kind |-> "Tcp", data |-> frame])]
    /\ oneshot' = [oneshot EXCEPT ![<< p, Len(sent[p]) + 1 >>] = "open"]
    /\ conn' = [conn EXCEPT ![p] = "send"]
    /\ UNCHANGED << codec, call, reader, sends, rx_queue, web_queue, fwd, actor, db, history,
                    acceptor, web_server >>

\* read_frame returns Ok(None) or Err: break, and the task's tx is dropped.
TcpClose(p) ==
    /\ conn[p] = "read"
    /\ conn' = [conn EXCEPT ![p] = "closed"]
    /\ UNCHANGED << codec, call, reader, sent, oneshot, sends, rx_queue, web_queue, fwd, actor, db, history,
                    acceptor, web_server >>

\* A producer that reads its next request without awaiting the reply.
after_send_no_wait == "read"

\* Where a producer goes once its send has completed: resp_rx.await.
after_send == "wait"

\* tx.send(Command::Tcp { data, respond_to }).await completes.
TcpSend(p) ==
    /\ conn[p] = "send"
    /\ actor = "running"
    /\ has_capacity(rx_queue)
    /\ rx_queue' = Append(rx_queue, [kind |-> "Tcp", data |-> sent[p][Len(sent[p])].data,
                                     respond_to |-> CurSlot(p)])
    /\ conn' = [conn EXCEPT ![p] = after_send]
    /\ UNCHANGED << codec, call, reader, sent, oneshot, sends, web_queue, fwd, actor, db, history,
                    acceptor, web_server >>

\* tx.send returns Err because rx is gone: break (main.rs 94-96).
TcpSendClosed(p) ==
    /\ conn[p] = "send"
    /\ actor = "cancelled"
    /\ conn' = [conn EXCEPT ![p] = "closed"]
    /\ oneshot' = [oneshot EXCEPT ![CurSlot(p)] = "dropped"]
    /\ UNCHANGED << codec, call, reader, sent, sends, rx_queue, web_queue, fwd, actor, db, history,
                    acceptor, web_server >>

\* resp_rx.await yields Err because the sender went without a send: the
\* `if let Ok` does not match and the loop reads on (main.rs 98).
TcpReplyLost(p) ==
    /\ conn[p] = "wait"
    /\ oneshot[CurSlot(p)] = "lost"
    /\ conn' = [conn EXCEPT ![p] = "read"]
    /\ UNCHANGED << codec, call, reader, sent, oneshot, sends, rx_queue, web_queue, fwd, actor, db, history,
                    acceptor, web_server >>

\* resp_rx.await yields the response and write_frame succeeds.
TcpReply(p) ==
    /\ conn[p] = "wait"
    /\ oneshot[CurSlot(p)] = "full"
    /\ oneshot' = [oneshot EXCEPT ![CurSlot(p)] = "taken"]
    /\ conn' = [conn EXCEPT ![p] = "read"]
    /\ UNCHANGED << codec, call, reader, sent, sends, rx_queue, web_queue, fwd, actor, db, history,
                    acceptor, web_server >>

\* resp_rx.await yields the response and write_frame fails: break.
TcpReplyWriteError(p) ==
    /\ conn[p] = "wait"
    /\ oneshot[CurSlot(p)] = "full"
    /\ oneshot' = [oneshot EXCEPT ![CurSlot(p)] = "taken"]
    /\ conn' = [conn EXCEPT ![p] = "closed"]
    /\ UNCHANGED << codec, call, reader, sent, sends, rx_queue, web_queue, fwd, actor, db, history,
                    acceptor, web_server >>

(***************************************************************************)
(* A WebSocket session (web.rs 154-183)                                    *)
(***************************************************************************)
\* ws_handler upgrades the connection; handle_socket holds the AppState.
WsConnect(p) ==
    /\ web_server = "serving"
    /\ conn[p] = "new"
    /\ conn' = [conn EXCEPT ![p] = "read"]
    /\ UNCHANGED << codec, call, reader, sent, oneshot, sends, rx_queue, web_queue, fwd, actor, db, history,
                    acceptor, web_server >>

\* socket.recv() yields a text message that to_db_command accepts.
WsRecv(p, c) ==
    /\ conn[p] = "read"
    /\ Issued < MaxReqs
    /\ sent' = [sent EXCEPT ![p] = Append(@, [kind |-> "Web", cmd |-> c.cmd,
                                              order |-> c.order])]
    /\ oneshot' = [oneshot EXCEPT ![<< p, Len(sent[p]) + 1 >>] = "open"]
    /\ conn' = [conn EXCEPT ![p] = "send"]
    /\ UNCHANGED << codec, call, reader, sends, rx_queue, web_queue, fwd, actor, db, history,
                    acceptor, web_server >>

\* socket.recv() yields None or an error: the loop ends.
WsClose(p) ==
    /\ conn[p] = "read"
    /\ conn' = [conn EXCEPT ![p] = "closed"]
    /\ UNCHANGED << codec, call, reader, sent, oneshot, sends, rx_queue, web_queue, fwd, actor, db, history,
                    acceptor, web_server >>

\* tx.send(WebCommand { cmd, respond_to }).await completes.
WsSend(p) ==
    /\ conn[p] = "send"
    /\ fwd.pc \in {"recv", "send"}
    /\ has_capacity(web_queue)
    /\ web_queue' = Append(web_queue, [cmd |-> sent[p][Len(sent[p])].cmd,
                                       order |-> sent[p][Len(sent[p])].order,
                                       respond_to |-> CurSlot(p)])
    /\ conn' = [conn EXCEPT ![p] = after_send]
    /\ UNCHANGED << codec, call, reader, sent, oneshot, sends, rx_queue, fwd, actor, db, history,
                    acceptor, web_server >>

\* tx.send returns Err because web_rx is gone: the session answers
\* "Database unavailable" and reads on (web.rs 164-165).
WsSendClosed(p) ==
    /\ conn[p] = "send"
    /\ fwd.pc = "cancelled"
    /\ conn' = [conn EXCEPT ![p] = "read"]
    /\ oneshot' = [oneshot EXCEPT ![CurSlot(p)] = "dropped"]
    /\ UNCHANGED << codec, call, reader, sent, sends, rx_queue, web_queue, fwd, actor, db, history,
                    acceptor, web_server >>

\* resp_rx.await yields Err: the session answers "No response" and reads on
\* (web.rs 169).
WsReplyLost(p) ==
    /\ conn[p] = "wait"
    /\ oneshot[CurSlot(p)] = "lost"
    /\ conn' = [conn EXCEPT ![p] = "read"]
    /\ UNCHANGED << codec, call, reader, sent, oneshot, sends, rx_queue, web_queue, fwd, actor, db, history,
                    acceptor, web_server >>

\* resp_rx.await yields the result and socket.send succeeds.
WsReply(p) ==
    /\ conn[p] = "wait"
    /\ oneshot[CurSlot(p)] = "full"
    /\ oneshot' = [oneshot EXCEPT ![CurSlot(p)] = "taken"]
    /\ conn' = [conn EXCEPT ![p] = "read"]
    /\ UNCHANGED << codec, call, reader, sent, sends, rx_queue, web_queue, fwd, actor, db, history,
                    acceptor, web_server >>

\* resp_rx.await yields the result and socket.send fails: break.
WsReplySendError(p) ==
    /\ conn[p] = "wait"
    /\ oneshot[CurSlot(p)] = "full"
    /\ oneshot' = [oneshot EXCEPT ![CurSlot(p)] = "taken"]
    /\ conn' = [conn EXCEPT ![p] = "closed"]
    /\ UNCHANGED << codec, call, reader, sent, sends, rx_queue, web_queue, fwd, actor, db, history,
                    acceptor, web_server >>

(***************************************************************************)
(* The end of main and the runtime's shutdown                              *)
(*   main returns when bind or accept fails (main.rs 74, 78 `?`).  Its tx  *)
(*   is dropped with it, and #[tokio::main] then drops the runtime, which  *)
(*   drops every spawned task at an await point, in no particular order:   *)
(*   nothing awaits _db_handle.                                            *)
(***************************************************************************)
\* listener.accept().await? (or bind) returns the error out of main.
AcceptorStop ==
    /\ acceptor = "accepting"
    /\ acceptor' = "stopped"
    /\ UNCHANGED << codec, call, reader, conn, sent, oneshot, sends, rx_queue, web_queue, fwd, actor, db,
                    history, web_server >>

\* The runtime drops a connection task or session at read_frame, send or
\* resp_rx.await: its oneshot receiver and its sender handle go with it.
Cancel(p) ==
    /\ acceptor = "stopped"
    /\ conn[p] \in {"read", "send", "wait"}
    /\ conn' = [conn EXCEPT ![p] = "cancelled"]
    /\ oneshot' = IF conn[p] \in {"send", "wait"} /\ oneshot[CurSlot(p)] = "open"
                  THEN [oneshot EXCEPT ![CurSlot(p)] = "dropped"]
                  ELSE oneshot
    /\ UNCHANGED << codec, call, reader, sent, sends, rx_queue, web_queue, fwd, actor, db, history,
                    acceptor, web_server >>

\* The runtime drops the actor task at rx.recv().await: rx goes, and with
\* it whatever is still queued.
ActorCancel ==
    /\ acceptor = "stopped"
    /\ actor = "running"
    /\ actor' = "cancelled"
    /\ rx_queue' = << >>
    /\ oneshot' = SenderDropped(oneshot, rx_queue)
    /\ UNCHANGED << codec, call, reader, conn, sent, sends, web_queue, fwd, db, history,
                    acceptor, web_server >>

\* The runtime drops the forwarder at web_rx.recv().await or at its send.
FwdCancel ==
    /\ acceptor = "stopped"
    /\ fwd.pc \in {"recv", "send"}
    /\ fwd' = [pc |-> "cancelled"]
    /\ web_queue' = << >>
    /\ oneshot' = SenderDropped(oneshot, web_queue
                                    \o (IF fwd.pc = "send" THEN << fwd.cmd >> ELSE << >>))
    /\ UNCHANGED << codec, call, reader, conn, sent, sends, rx_queue, actor, db, history,
                    acceptor, web_server >>

\* The web server task ends (main.rs 38, 40 unwrap, or the shutdown) and the
\* router, with its web_tx, is dropped.
WebServerStop ==
    /\ web_server = "serving"
    /\ web_server' = "stopped"
    /\ UNCHANGED << codec, call, reader, conn, sent, oneshot, sends, rx_queue, web_queue, fwd, actor, db,
                    history, acceptor >>

NextActor ==
    \/ ActorStep
    \/ ActorExit
    \/ FwdRecv
    \/ FwdSend
    \/ FwdSendClosed
    \/ FwdExit
    \/ \E p \in TcpIds : Accept(p)
    \/ \E p \in TcpIds : \E frame \in TcpFrames(p) : TcpRead(p, frame)
    \/ \E p \in TcpIds : TcpClose(p)
    \/ \E p \in TcpIds : TcpSend(p)
    \/ \E p \in TcpIds : TcpSendClosed(p)
    \/ \E p \in TcpIds : TcpReplyLost(p)
    \/ \E p \in TcpIds : TcpReply(p)
    \/ \E p \in TcpIds : TcpReplyWriteError(p)
    \/ \E p \in WebIds : WsConnect(p)
    \/ \E p \in WebIds : \E c \in WebCmds : WsRecv(p, c)
    \/ \E p \in WebIds : WsClose(p)
    \/ \E p \in WebIds : WsSend(p)
    \/ \E p \in WebIds : WsSendClosed(p)
    \/ \E p \in WebIds : WsReplyLost(p)
    \/ \E p \in WebIds : WsReply(p)
    \/ \E p \in WebIds : WsReplySendError(p)
    \/ AcceptorStop
    \/ \E p \in Producers : Cancel(p)
    \/ ActorCancel
    \/ FwdCancel
    \/ WebServerStop

vars == << actorVars, codec, call, reader >>

Init == InitActor

Next == NextActor

Spec == Init /\ [][Next]_vars

(***************************************************************************)
(* Fairness.  The runtime polls every task that can make progress, and a   *)
(* sender waiting for a permit of a bounded channel is served in arrival   *)
(* order, so a send that can complete again and again does complete.       *)
(* What the clients and the environment do is under no obligation.         *)
(***************************************************************************)
\* The loop's dequeue, without the pass over the item: ActorStep can take a
\* step exactly when ActorTurn can, and only ActorStep steps shorten rx_queue
\* and leave the actor running, so fairness to one is fairness to the other.
ActorTurn ==
    /\ actor = "running"
    /\ rx_queue # << >>
    /\ rx_queue' = Tail(rx_queue)
    /\ actor' = actor

Fairness ==
    /\ WF_<< rx_queue, actor >>(ActorTurn)
    /\ WF_vars(ActorExit)
    /\ WF_vars(FwdRecv)
    /\ SF_vars(FwdSend)
    /\ WF_vars(FwdExit)
    /\ \A p \in TcpIds : SF_vars(TcpSend(p))
    /\ \A p \in WebIds : SF_vars(WsSend(p))

FairSpec == Init /\ [][Next]_vars /\ Fairness

\* C2: under fair scheduling, a producer whose request is enqueued and
\* that waits for the reply is eventually sent it while it waits, unless
\* the runtime shuts down and drops the producer, the actor or the
\* forwarder first.
C2_EveryWaiterIsAnswered ==
    \A p \in Producers :
        (conn[p] = "wait")
            ~> \/ conn[p] = "wait" /\ oneshot[CurSlot(p)] = "full"
               \/ conn[p] = "cancelled"
               \/ actor = "cancelled"
               \/ fwd.pc = "cancelled"

\* The web session waits and its reply, which went through both channels,
\* is in its slot.
C2_Witness ==
    /\ conn["w1"] = "wait"
    /\ oneshot[CurSlot("w1")] = "full"
    /\ Len(history) = 2

(***************************************************************************)
(* The codec on its own: a command or a result is encoded and the bytes    *)
(* are decoded again.  codec.phase tells how far the value has come.       *)
(***************************************************************************)
\* The longest column, value and update lists that are enumerated in full.
MaxCols == 2
\* The most rows of an enumerated row-set.
MaxRows == 1

SeqsUpTo(S, n) == UNION { [1..k -> S] : k \in 0..n }

NameE == << 195, 169 >>
CodecNames == { NameA, NameE }
CodecValues == { IntV(0), IntV(-1), IntV(2147483647), IntV(-2147483647),
                 TextV(NameE), TextV(<< >>), BoolV(TRUE), BoolV(FALSE) }
CodecTypes == { "Int", "Text", "Bool" }

\* A string of n bytes, and n distinct names.
Bytes(n) == [k \in 1..n |-> 97]
Zeros(n) == [k \in 1..n |-> 0]
Names(n) == [k \in 1..n |-> Dec(k)]
ManyColumns(n) == [k \in 1..n |-> << Dec(k), "Int" >>]
ManyValues(n) ==
    [k \in 1..n |-> IF k % 3 = 0 THEN IntV(-k) ELSE IF k % 3 = 1 THEN TextV(Dec(k)) ELSE BoolV(k % 2 = 0)]
ManyUpdates(n) == [name \in { Dec(k) : k \in 1..n } |-> TextV(name)]

\* Commands whose lists are short, each with the iteration orders of its map.
SmallCommands ==
    { [cmd |-> CreateTable(NameT, columns), order |-> << >>] :
        columns \in SeqsUpTo(CodecNames \X CodecTypes, MaxCols) }
    \cup { [cmd |-> InsertRow(NameE, values), order |-> << >>] :
             values \in SeqsUpTo({ IntV(-1), TextV(NameE), BoolV(TRUE) }, MaxCols) }
    \cup UNION { { [cmd |-> UpdateRow(NameT, row_id, updates), order |-> order] :
                     order \in Perms(DOMAIN updates), row_id \in { 0, 2147483647 } } :
                 updates \in UNION { [D -> CodecValues] : D \in SUBSET CodecNames } }
    \cup { [cmd |-> SelectAll(table), order |-> << >>] : table \in CodecNames \cup { << >> } }
    \cup { [cmd |-> GetTables, order |-> << >>] }

\* Commands at and just beyond what a u8 count and a u16 length can carry.
LargeCommands ==
    UNION { { [cmd |-> CreateTable(NameT, ManyColumns(n)), order |-> << >>],
              [cmd |-> InsertRow(NameT, ManyValues(n)), order |-> << >>],
              [cmd |-> UpdateRow(NameT, 7, ManyUpdates(n)), order |-> Names(n)] } :
            n \in { 255, 256 } }
    \cup { [cmd |-> SelectAll(Bytes(n)), order |-> << >>] : n \in { 65535, 65536 } }

CodecCommands == SmallCommands \cup LargeCommands

\* Row-sets in which every row has one value per column.
SmallResults ==
    { ResOk }
    \cup UNION { { ResRows(columns, rows) :
                     rows \in SeqsUpTo({ 0, 2147483647 }
                                         \X [1..Len(columns) -> { IntV(-1), TextV(NameE) }],
                                       MaxRows) } :
                 columns \in SeqsUpTo(CodecNames, MaxCols) }

\* Row-sets whose rows do not match the column list.
RaggedResults ==
    { ResRows(<< NameA >>, << << 1, << IntV(1), IntV(2) >> >> >>),
      ResRows(<< NameA, NameB >>, << << 1, << IntV(1) >> >> >>),
      ResRows(<< >>, << << 1, << BoolV(TRUE) >> >> >>) }

LargeResults ==
    { ResRows(Names(255), << << 1, ManyValues(255) >>, << 2, ManyValues(255) >> >>),
      ResRows([k \in 1..256 |-> << >>], << >>),
      ResRows(<< Bytes(65535) >>, << << 1, << TextV(Bytes(65535)) >> >> >>),
      ResRows(<< Zeros(65536) >>, << >>) }

CodecResults == SmallResults \cup RaggedResults \cup LargeResults

InitCodec ==
    /\ ActorIdle
    /\ call = NoCall
    /\ reader = NoReader
    /\ \/ \E c \in CodecCommands :
              codec = [phase |-> "command", input |-> c.cmd, order |-> c.order]
       \/ \E r \in CodecResults :
              codec = [phase |-> "result", input |-> r]

\* encode_command(&cmd), as the client does before it writes the frame.
EncodeCommand ==
    /\ codec.phase = "command"
    /\ codec' = [phase |-> "command_bytes", input |-> codec.input, order |-> codec.order,
                 bytes |-> encode_command(codec.input, codec.order)]
    /\ UNCHANGED << actorVars, call, reader >>

\* parse_command(&data), as the actor does with a dequeued frame.
ParseCommand ==
    /\ codec.phase = "command_bytes"
    /\ codec' = [phase |-> "command_parsed", input |-> codec.input, order |-> codec.order,
                 bytes |-> codec.bytes, out |-> parse_command(codec.bytes)]
    /\ UNCHANGED << actorVars, call, reader >>

\* encode_result(&result).
EncodeResult ==
    /\ codec.phase = "result"
    /\ codec' = [phase |-> "result_bytes", input |-> codec.input,
                 bytes |-> encode_result(codec.input)]
    /\ UNCHANGED << actorVars, call, reader >>

\* decode_response(&data), as the client does with the frame it reads.
DecodeResponse ==
    /\ codec.phase = "result_bytes"
    /\ codec' = [phase |-> "result_decoded", input |-> codec.input, bytes |-> codec.bytes,
                 out |-> decode_response(codec.bytes)]
    /\ UNCHANGED << actorVars, call, reader >>

NextCodec ==
    \/ EncodeCommand
    \/ ParseCommand
    \/ EncodeResult
    \/ DecodeResponse

CodecSpec == InitCodec /\ [][NextCodec]_vars

(***************************************************************************)
(* Round trips                                                             *)
(***************************************************************************)
\* What the wire format can carry: a count is one byte, a length two.
StringFits(str) == Len(str) <= 65535
CountFits(n) == n <= 255

CommandWithinLimits(cmd) ==
    IF cmd.op = "GetTables" THEN TRUE
    ELSE /\ StringFits(cmd.table)
         /\ cmd.op = "CreateTable" =>
                /\ CountFits(Len(cmd.columns))
                /\ \A k \in DOMAIN cmd.columns : StringFits(cmd.columns[k][1])
         /\ cmd.op = "InsertRow" =>
                /\ CountFits(Len(cmd.values))
                /\ \A k \in DOMAIN cmd.values :
                       cmd.values[k].tag = "Text" => StringFits(cmd.values[k].s)
         /\ cmd.op = "UpdateRow" =>
                /\ CountFits(Cardinality(DOMAIN cmd.updates))
                /\ \A name \in DOMAIN cmd.updates :
                       /\ StringFits(name)
                       /\ cmd.updates[name].tag = "Text" => StringFits(cmd.updates[name].s)

ResultWithinLimits(result) ==
    result.kind = "Rows" =>
        /\ CountFits(Len(result.columns))
        /\ \A k \in DOMAIN result.columns : StringFits(result.columns[k])
        /\ \A r \in DOMAIN result.rows :
               /\ Len(result.rows[r][2]) = Len(result.columns)
               /\ \A k \in DOMAIN result.rows[r][2] :
                      result.rows[r][2][k].tag = "Text" => StringFits(result.rows[r][2][k].s)

\* C9: a command with at most 255 columns, values or updates and no string
\* longer than 65535 bytes, encoded by encode_command under any iteration
\* order of its updates, is parsed back by parse_command as that command.
C9_CommandRoundTrip ==
    (codec.phase = "command_parsed" /\ CommandWithinLimits(codec.input))
        => codec.out = [ok |-> TRUE, cmd |-> codec.input]

\* An update of 255 columns has made the round trip.
C9_Witness ==
    /\ codec.phase = "command_parsed"
    /\ codec.input.op = "UpdateRow"
    /\ Cardinality(DOMAIN codec.input.updates) = 255
    /\ codec.out = [ok |-> TRUE, cmd |-> codec.input]

\* C9 as stated: every command, whatever the number of its columns, values
\* or updates, is parsed back as itself.
C9_AnyCommandRoundTrip ==
    codec.phase = "command_parsed" => codec.out = [ok |-> TRUE, cmd |-> codec.input]

CommandOf(item) ==
    IF item.kind = "Tcp" THEN parse_command(item.data) ELSE [ok |-> TRUE, cmd |-> item.cmd]

\* The store after the first k logged items are applied to the empty store,
\* one after the other, in the order of the log.
RECURSIVE Replay(_, _)
Replay(log, k) ==
    IF k = 0 THEN Database_default
    ELSE LET before == Replay(log, k - 1)
             c == CommandOf(log[k].item)
         IN  IF c.ok THEN execute(before, c.cmd, log[k].order).db ELSE before

\* What executing the k-th logged item on the store it met yields, in the
\* form the item's producer takes it: encoded bytes for TCP, the result or
\* error itself for the web.
ReplyOf(log, k) ==
    LET before == Replay(log, k - 1)
        c == CommandOf(log[k].item)
        e == execute(before, c.cmd, log[k].order)
    IN  IF log[k].item.kind = "Web" THEN e.res
        ELSE IF ~c.ok THEN encode_error(MsgProtocolErrorPrefix \o c.err)
        ELSE IF e.res.ok THEN encode_result(e.res.result)
        ELSE encode_error(e.res.err)

Dequeued(s) == \E k \in DOMAIN history : history[k].item.respond_to = s

\* C1: every dequeued item has had exactly one send on its own reply slot,
\* of the result of executing that item; no slot has had any other send.
C1_OneReplyPerItem ==
    /\ \A k \in DOMAIN history :
           sends[history[k].item.respond_to] = << ReplyOf(history, k) >>
    /\ \A j, k \in DOMAIN history :
           j # k => history[j].item.respond_to # history[k].item.respond_to
    /\ \A s \in SlotIds : ~Dequeued(s) => sends[s] = << >>

\* Two producers' items have been dequeued and answered differently.
C1_Witness ==
    /\ Len(history) = 2
    /\ history[1].item.respond_to[1] # history[2].item.respond_to[1]
    /\ Len(sends[history[1].item.respond_to]) = 1
    /\ Len(sends[history[2].item.respond_to]) = 1
    /\ history[1].item.kind = "Tcp"
    /\ sends[history[2].item.respond_to][1] = Ok(ResOk)

\* C3: the store is what applying the dequeued commands one at a time, in
\* dequeue order, to the empty store gives.
C3_StoreIsSequentialReplay == db = Replay(history, Len(history))

\* A table made by one producer holds a row inserted by another.
C3_Witness ==
    /\ Len(history) = 2
    /\ history[1].item.respond_to[1] # history[2].item.respond_to[1]
    /\ NameT \in DOMAIN db.tables
    /\ db.tables[NameT].rows # EmptyMap

\* The slots of producer p that await a reply, and its items on the way.
Outstanding(p) == { s \in SlotIds : s[1] = p /\ oneshot[s] = "open" }
InFlight(p) ==
    Len(SelectSeq(rx_queue, LAMBDA item : item.respond_to[1] = p))
    + Len(SelectSeq(web_queue, LAMBDA item : item.respond_to[1] = p))
    + (IF fwd.pc = "send" /\ fwd.cmd.respond_to[1] = p THEN 1 ELSE 0)
DequeuedOf(p) == SelectSeq(history, LAMBDA h : h.item.respond_to[1] = p)

\* What producer p's n-th request looks like once it is an item.
SameRequest(item, request) ==
    /\ item.kind = request.kind
    /\ IF item.kind = "Tcp" THEN item.data = request.data
       ELSE item.cmd = request.cmd /\ item.order = request.order

\* C4: a producer has at most one request awaiting its reply and at most
\* one item on the way, and the actor dequeues a producer's requests in the
\* order the producer made them.
C4_OneOutstandingInOrder ==
    \A p \in Producers :
        /\ Cardinality(Outstanding(p)) <= 1
        /\ InFlight(p) <= 1
        /\ \A n \in DOMAIN DequeuedOf(p) :
               /\ DequeuedOf(p)[n].item.respond_to = << p, n >>
               /\ SameRequest(DequeuedOf(p)[n].item, sent[p][n])

\* One producer's second request has been dequeued after its first.
C4_Witness ==
    \E p \in Producers :
        /\ Len(DequeuedOf(p)) = 2
        /\ sent[p][1] # sent[p][2]

Abandoned(item) == oneshot[item.respond_to] = "dropped"

SomeSendFailed == \E s \in SlotIds : oneshot[s] = "failed"

\* A step that dequeues an item whose reply receiver is gone.
DequeuesAbandoned ==
    /\ rx_queue # << >>
    /\ Abandoned(Head(rx_queue))
    /\ rx_queue' = Tail(rx_queue)
    /\ history' # history

\* C6: when the actor dequeues an item whose receiver was dropped, the
\* command is executed against the store, the send fails and is ignored,
\* the actor stays in its loop, and what is queued after a failed send is
\* dequeued and answered in its turn unless the runtime drops the actor.
C6_AbandonedReplyIsIgnored ==
    /\ [][DequeuesAbandoned =>
            /\ history' = Append(history, history'[Len(history')])
            /\ history'[Len(history')].item = Head(rx_queue)
            /\ db' = Replay(history', Len(history'))
            /\ sends'[Head(rx_queue).respond_to] = << ReplyOf(history', Len(history')) >>
            /\ oneshot'[Head(rx_queue).respond_to] = "failed"
            /\ actor' = "running"]_vars
    /\ (SomeSendFailed /\ rx_queue # << >>)
           ~> \/ actor = "cancelled"
              \/ /\ rx_queue = << >>
                 /\ \A k \in DOMAIN history : Len(sends[history[k].item.respond_to]) = 1

\* A command whose sender had gone made its table, and the next item was
\* served after it.
C6_Witness ==
    /\ Len(history) = 2
    /\ oneshot[history[1].item.respond_to] = "failed"
    /\ NameT \in DOMAIN db.tables
    /\ oneshot[history[2].item.respond_to] \in { "full", "taken" }

(***************************************************************************)
(* Backpressure and shutdown                                               *)
(***************************************************************************)
\* The channel producer p sends into, and whether its receiver is alive.
QueueOf(p) == IF p \in TcpIds THEN rx_queue ELSE web_queue
ReceiverAlive(p) == IF p \in TcpIds THEN actor = "running" ELSE fwd.pc \in {"recv", "send"}

\* Producer p is in its send and the channel is full.
Suspended(p) == conn[p] = "send" /\ ReceiverAlive(p) /\ Len(QueueOf(p)) >= QueueCap

\* C7: neither channel ever holds more than its capacity; a producer whose
\* send finds the channel full stays in the send with its request intact
\* (unless the runtime drops the task), and under fair scheduling the
\* request is enqueued, unless the runtime shuts the program down first.
C7_BoundedQueueBackpressure ==
    /\ [](Len(rx_queue) <= QueueCap /\ Len(web_queue) <= QueueCap)
    /\ [][\A p \in Producers :
              Suspended(p) =>
                  \/ conn'[p] = "cancelled"
                  \/ /\ conn'[p] = "send"
                     /\ sent'[p] = sent[p]
                     /\ oneshot'[CurSlot(p)] = "open"]_vars
    /\ \A p \in Producers :
           (conn[p] = "send")
               ~> \/ conn[p] = "wait" /\ (InFlight(p) = 1 \/ Dequeued(CurSlot(p)))
                  \/ conn[p] = "cancelled"
                  \/ actor = "cancelled"
                  \/ fwd.pc = "cancelled"

\* The TCP task is suspended in its send behind a web command that fills
\* the channel.
C7_Witness ==
    /\ Suspended("t1")
    /\ Len(rx_queue) = QueueCap
    /\ rx_queue[1].kind = "Web"

\* C8: the actor stops running only when every producer handle is dropped
\* and nothing is queued, and once every handle is dropped it does stop.
C8_TerminatesAfterDrain ==
    /\ [][(actor = "running" /\ actor' # "running")
              => (TxHandles = {} /\ rx_queue = << >>)]_vars
    /\ (TxHandles = {}) ~> (actor # "running")

(***************************************************************************)
(* Errors: one TCP connection that sends frames of every kind, one after   *)
(* the other.                                                              *)
(***************************************************************************)
CmdUpdateNoRow == UpdateRow(NameT, 9, NameA :> IntV(2))

ErrFrames ==
    { FrameBadOpcode, FrameTruncated, FrameBadTag, FrameBadUtf8,
      encode_command(CmdCreate, << >>),
      encode_command(CmdInsert, << >>),
      encode_command(CmdInsertBad, << >>),
      encode_command(CmdUpdateNoRow, << NameA >>),
      encode_command(SelectAll(NameT), << >>) }

NextErr ==
    \/ ActorStep
    \/ Accept("t1")
    \/ \E frame \in ErrFrames : TcpRead("t1", frame)
    \/ TcpSend("t1")
    \/ TcpReply("t1")

ErrSpec == InitActor /\ [][NextErr]_vars

\* The last item the actor dequeued, and what became of it.
Last == history[Len(history)]
LastParsed == parse_command(Last.item.data)
LastExecuted == execute(Replay(history, Len(history) - 1), LastParsed.cmd, Last.order)
LastReply == sends[Last.item.respond_to]

\* C5: a frame that does not decode gets exactly one reply, the encoded
\* error "Protocol error: <cause>", and leaves the store as it was; a
\* command the store rejects gets exactly one reply, the encoded error of
\* the store; in both cases the actor is still in its loop, and every item
\* dequeued so far has had its one reply.
C5_ErrorsAreReplies ==
    history # << >> =>
        /\ ~LastParsed.ok =>
               /\ LastReply = << encode_error(MsgProtocolErrorPrefix \o LastParsed.err) >>
               /\ db = Replay(history, Len(history) - 1)
        /\ (LastParsed.ok /\ ~LastExecuted.res.ok) =>
               LastReply = << encode_error(LastExecuted.res.err) >>
        /\ actor = "running"
        /\ \A k \in DOMAIN history : Len(sends[history[k].item.respond_to]) = 1

\* A frame with invalid UTF-8 was answered with an error, and the frame
\* after it was rejected by the store and answered with another.
C5_Witness ==
    /\ Len(history) = 2
    /\ history[1].item.data = FrameBadUtf8
    /\ decode_response(sends[history[1].item.respond_to][1]).out = "err"
    /\ LastParsed.ok
    /\ ~LastExecuted.res.ok
    /\ LastReply = << encode_error(MsgTableNotFound) >>

(***************************************************************************)
(* Strings longer than a u16 length can say.  The value being encoded      *)
(* holds one string of codec.len bytes; of the frame the state keeps the   *)
(* length and the two bytes that prefix the string.                        *)
(***************************************************************************)
\* The string lengths tried: short ones, and those around 2^16.
MaxShort == 40
LongLengths == 0..MaxShort \cup { 65535, 65536, 65537 }
LongKinds == { "table", "text", "column" }

\* encode_command or encode_result of a value whose one string is str.
LongFrame(kind, str) ==
    IF kind = "table" THEN encode_command(SelectAll(str), << >>)
    ELSE IF kind = "text" THEN encode_command(InsertRow(NameT, << TextV(str) >>), << >>)
    ELSE encode_result(ResRows(<< str >>, << >>))

\* Where the string's length prefix starts in the frame, counted from 0.
PrefixAt(kind) ==
    IF kind = "table" THEN 1
    ELSE IF kind = "text" THEN 1 + 2 + Len(NameT) + 1 + 1
    ELSE 2

Framed(kind, len, frame) ==
    [phase |-> "long_bytes", kind |-> kind, len |-> len, frame_len |-> Len(frame),
     prefix |-> from_be_bytes(Slice(frame, PrefixAt(kind), PrefixAt(kind) + 2))]

InitLength ==
    /\ ActorIdle
    /\ call = NoCall
    /\ reader = NoReader
    /\ \E kind \in LongKinds, len \in LongLengths :
           codec = [phase |-> "long", kind |-> kind, len |-> len]

EncodeLong ==
    /\ codec.phase = "long"
    /\ codec' = Framed(codec.kind, codec.len, LongFrame(codec.kind, Bytes(codec.len)))
    /\ UNCHANGED << actorVars, call, reader >>

LengthSpec == InitLength /\ [][EncodeLong]_vars

\* C11: the encoder emits no frame in which the length prefix of a string
\* differs from the string's byte length, as it would have to for a string
\* of more than 65535 bytes: such a value is rejected, not encoded.
C11_NoWrappedLengthPrefix ==
    codec.phase = "long_bytes" => codec.prefix = codec.len

(***************************************************************************)
(* Decoding arbitrary buffers: the proper prefixes of an encoding, an      *)
(* encoding followed by other bytes, and short buffers of any bytes.       *)
(***************************************************************************)
\* The most bytes appended to an encoding.
MaxTrail == 2
\* The longest buffer of arbitrary bytes.
MaxRaw == 4

TrailBytes == { 0, 1, 255 }
Trailing == SeqsUpTo(TrailBytes, MaxTrail) \ { << >> }
RawBytes == { 0, 1, 2, 3, 4, 5, 6, 255 }
RawBuffers == SeqsUpTo(RawBytes, MaxRaw)

\* What a frame is a frame of.
FrameOf(phase) == IF phase = "command_bytes" THEN "command" ELSE "result"

Buffer(of, kind, input, bytes) ==
    [phase |-> "buffer", of |-> of, kind |-> kind, input |-> input, bytes |-> bytes]

InitBuffer ==
    /\ ActorIdle
    /\ call = NoCall
    /\ reader = NoReader
    /\ \/ \E c \in SmallCommands :
              codec = [phase |-> "command", input |-> c.cmd, order |-> c.order]
       \/ \E r \in SmallResults : codec = [phase |-> "result", input |-> r]
       \/ \E of \in { "command", "result" }, bytes \in RawBuffers :
              codec = Buffer(of, "raw", << >>, bytes)

\* The lengths of the proper prefixes of the frame at hand.
PrefixLengths ==
    IF codec.phase \in { "command_bytes", "result_bytes" } THEN 0..(Len(codec.bytes) - 1)
    ELSE { }

\* The peer sent only the first n bytes of the frame.
Truncate(n) ==
    /\ codec.phase \in { "command_bytes", "result_bytes" }
    /\ n < Len(codec.bytes)
    /\ codec' = Buffer(FrameOf(codec.phase), "prefix", codec.input, SubSeq(codec.bytes, 1, n))
    /\ UNCHANGED << actorVars, call, reader >>

\* The peer sent other bytes after the frame's.
Extend(trail) ==
    /\ codec.phase \in { "command_bytes", "result_bytes" }
    /\ codec' = Buffer(FrameOf(codec.phase), "extended", codec.input, codec.bytes \o trail)
    /\ UNCHANGED << actorVars, call, reader >>

Decoded(phase, c, out) ==
    [phase |-> phase, of |-> c.of, kind |-> c.kind, input |-> c.input, bytes |-> c.bytes,
     out |-> out]

\* parse_command(&data) on the buffer.
ParseBuffer ==
    /\ codec.phase = "buffer"
    /\ codec.of = "command"
    /\ codec' = Decoded("buffer_parsed", codec, parse_command(codec.bytes))
    /\ UNCHANGED << actorVars, call, reader >>

\* decode_response(&data) on the buffer.
DecodeBuffer ==
    /\ codec.phase = "buffer"
    /\ codec.of = "result"
    /\ codec' = Decoded("buffer_decoded", codec, decode_response(codec.bytes))
    /\ UNCHANGED << actorVars, call, reader >>

NextBuffer ==
    \/ EncodeCommand
    \/ EncodeResult
    \/ \E n \in PrefixLengths : Truncate(n)
    \/ \E trail \in Trailing : Extend(trail)
    \/ ParseBuffer
    \/ DecodeBuffer

BufferSpec == InitBuffer /\ [][NextBuffer]_vars

StartsWith(msg, prefix) ==
    Len(msg) >= Len(prefix) /\ SubSeq(msg, 1, Len(prefix)) = prefix

\* The causes parse_command gives for an error.
IsParseError(msg) ==
    \/ msg \in { MsgUnexpectedEnd, MsgUnknownOpcode, MsgUnknownColumnType, MsgUnknownValueType }
    \/ StartsWith(msg, MsgInvalidUtf8A)
    \/ StartsWith(msg, MsgIncompleteUtf8)

\* The bytes the parsed command takes on the wire.
Consumed(cmd) ==
    Len(encode_command(cmd, IF cmd.op = "UpdateRow"
                            THEN CHOOSE order \in Perms(DOMAIN cmd.updates) : TRUE
                            ELSE << >>))

\* C12: parse_command returns a command or an error with its cause on
\* every buffer; a command it returns is made of bytes inside the buffer
\* (nothing was read past its end); every proper
\* prefix of a command's encoding is rejected, with "Unexpected end of
\* buffer"; and an encoding followed by other bytes parses as the command.
C12_ParseIsTotalAndBounded ==
    codec.phase = "buffer_parsed" =>
        /\ \/ codec.out.ok /\ DOMAIN codec.out = { "ok", "cmd" }
                           /\ Consumed(codec.out.cmd) <= Len(codec.bytes)
           \/ ~codec.out.ok /\ DOMAIN codec.out = { "ok", "err" }
                            /\ IsParseError(codec.out.err)
        /\ codec.kind = "prefix" => codec.out = Err(MsgUnexpectedEnd)
        /\ codec.kind = "extended" => codec.out = [ok |-> TRUE, cmd |-> codec.input]

\* An UpdateRow of two columns followed by two bytes has parsed as itself.
C12_Witness ==
    /\ codec.phase = "buffer_parsed"
    /\ codec.kind = "extended"
    /\ Len(codec.bytes) = Consumed(codec.input) + 2
    /\ codec.input.op = "UpdateRow"
    /\ Cardinality(DOMAIN codec.input.updates) = 2
    /\ codec.out = [ok |-> TRUE, cmd |-> codec.input]

\* C13: decode_response returns a result or an error value on every
\* buffer; it never panics.
C13_DecodeNeverPanics ==
    codec.phase = "buffer_decoded" => codec.out.out \in { "ok", "err" }

(***************************************************************************)
(* The table store on its own: Database::execute called with one command   *)
(* after the other.  call keeps the latest call: its number n, the         *)
(* command, the iteration order it met, the store before it, its result,   *)
(* and prev, the call before it.                                           *)
(***************************************************************************)
\* The most calls made in a run.
MaxCalls == 3

NameU == << 117 >>
NameC == << 99 >>

ColsT == << << NameA, "Int" >>, << NameB, "Text" >> >>
\* Two columns of one name, which CreateTable does not reject.
ColsU == << << NameA, "Int" >>, << NameA, "Int" >> >>

Row1 == << IntV(1), TextV(NameA) >>
Row2 == << IntV(2), TextV(NameB) >>

StoreCommands ==
    { CreateTable(NameT, ColsT),
      CreateTable(NameT, << << NameB, "Bool" >> >>),
      CreateTable(NameU, ColsU),
      InsertRow(NameT, Row1),
      InsertRow(NameT, Row2),
      InsertRow(NameT, << IntV(1) >>),
      InsertRow(NameT, << BoolV(TRUE), TextV(NameA) >>),
      InsertRow(NameT, << IntV(1), IntV(2) >>),
      InsertRow(NameT, << TextV(NameA), IntV(2) >>),
      InsertRow(NameU, << IntV(1), IntV(2) >>),
      UpdateRow(NameT, 1, NameA :> IntV(7)),
      UpdateRow(NameT, 2, NameB :> TextV(NameC)),
      UpdateRow(NameT, 1, (NameA :> IntV(7)) @@ (NameB :> TextV(NameC))),
      UpdateRow(NameT, 1, NameA :> TextV(NameC)),
      UpdateRow(NameT, 1, (NameA :> IntV(7)) @@ (NameC :> IntV(7))),
      UpdateRow(NameT, 9, NameC :> IntV(7)),
      UpdateRow(NameU, 1, NameA :> IntV(5)),
      SelectAll(NameT),
      SelectAll(NameU),
      GetTables }

\* The store after the commands of cmds, none of which iterates over a map.
RECURSIVE Run(_, _)
Run(dbv, cmds) ==
    IF cmds = << >> THEN dbv
    ELSE Run(execute(dbv, Head(cmds), << >>).db, Tail(cmds))

\* A store that already holds the table t with two rows.
Loaded == Run(Database_default, << CreateTable(NameT, ColsT), InsertRow(NameT, Row1),
                                   InsertRow(NameT, Row2) >>)

InitStore ==
    /\ TasksIdle
    /\ codec = [phase |-> "idle"]
    /\ call = NoCall
    /\ reader = NoReader
    /\ db \in { Database_default, Loaded }

Called(cmd, order, r) ==
    [n |-> call.n + 1, cmd |-> cmd, order |-> order, before |-> db, res |-> r.res,
     prev |-> IF call.n = 0 THEN call ELSE [call EXCEPT !.prev = NoCall]]

ExecuteCall(cmd, order, r) ==
    /\ db' = r.db
    /\ call' = Called(cmd, order, r)

\* db.execute(cmd)
Execute ==
    /\ call.n < MaxCalls
    /\ \E cmd \in StoreCommands :
           \E order \in Orders(db, cmd) : ExecuteCall(cmd, order, execute(db, cmd, order))
    /\ UNCHANGED << codec, reader, conn, sent, oneshot, sends, rx_queue, web_queue, fwd, actor, history,
                    acceptor, web_server >>

StoreSpec == InitStore /\ [][Execute]_vars

\* The latest call was of this operation.
Did(op) == call.n > 0 /\ call.cmd.op = op

\* The table a CreateTable makes of its arguments.
NewTable(table, columns) ==
    [name |-> table,
     columns |-> [k \in 1..Len(columns) |-> [name |-> columns[k][1], col_type |-> columns[k][2]]],
     rows |-> << >>,
     next_row_id |-> 1]

\* Every table but this one is what it was before the call.
OthersUnchanged(table) ==
    /\ DOMAIN db.tables \cup { table } = DOMAIN call.before.tables \cup { table }
    /\ \A other \in DOMAIN call.before.tables \ { table } :
           db.tables[other] = call.before.tables[other]

\* C14: CreateTable of a name the store does not have succeeds and adds a
\* table with the given columns in the given order, no rows and
\* next_row_id = 1; CreateTable of a name the store has fails with "Table
\* already exists" and leaves the store, that table included, as it was.
C14_CreateTable ==
    Did("CreateTable") =>
        IF call.cmd.table \notin DOMAIN call.before.tables
        THEN /\ call.res = Ok(ResOk)
             /\ call.cmd.table \in DOMAIN db.tables
             /\ db.tables[call.cmd.table] = NewTable(call.cmd.table, call.cmd.columns)
             /\ OthersUnchanged(call.cmd.table)
        ELSE /\ call.res = Err(MsgTableExists)
             /\ db = call.before

\* A second CreateTable of t, with other columns, failed and the table
\* with its two rows is as it was.
C14_Witness ==
    /\ Did("CreateTable")
    /\ call.cmd = CreateTable(NameT, << << NameB, "Bool" >> >>)
    /\ call.res = Err(MsgTableExists)
    /\ Cardinality(DOMAIN db.tables[NameT].rows) = 2
    /\ Len(db.tables[NameT].columns) = 2

\* The table the latest call names, before the call and after it.
Before == call.before.tables[call.cmd.table]
After == db.tables[call.cmd.table]
Known == call.cmd.table \in DOMAIN call.before.tables

\* The ids of a row-set are strictly increasing, so pairwise distinct.
IdsIncrease(rows) == \A j, k \in DOMAIN rows : j < k => rows[j][1] < rows[k][1]

\* C15: in every table the ids are the numbers from 1 up to, and not
\* including, next_row_id, each once (SelectAll lists them strictly
\* increasing); a successful InsertRow stores its row under the
\* next_row_id of before the call, an id no row had, and adds exactly one
\* to next_row_id; and no call removes an id or lowers next_row_id.
C15_RowIds ==
    /\ \A name \in DOMAIN db.tables :
           /\ DOMAIN db.tables[name].rows = 1..(db.tables[name].next_row_id - 1)
           /\ IdsIncrease(select_all(db, name).res.result.rows)
    /\ (Did("InsertRow") /\ call.res.ok) =>
           /\ Before.next_row_id \notin DOMAIN Before.rows
           /\ DOMAIN After.rows = DOMAIN Before.rows \cup { Before.next_row_id }
           /\ After.rows[Before.next_row_id] = call.cmd.values
           /\ After.next_row_id = Before.next_row_id + 1
    /\ call.n > 0 =>
           \A name \in DOMAIN call.before.tables :
               /\ name \in DOMAIN db.tables
               /\ DOMAIN call.before.tables[name].rows \subseteq DOMAIN db.tables[name].rows
               /\ call.before.tables[name].next_row_id <= db.tables[name].next_row_id

\* Two inserts in a row into the table t of two rows got the ids 3 and 4.
C15_Witness ==
    /\ call.n = 3
    /\ Did("InsertRow")
    /\ call.res.ok
    /\ call.prev.res.ok
    /\ call.prev.cmd.op = "InsertRow"
    /\ call.cmd.table = NameT
    /\ DOMAIN db.tables[NameT].rows = { 1, 2, 3, 4 }
    /\ db.tables[NameT].next_row_id = 5

\* The call before the latest was a successful InsertRow.
Inserted == call.n >= 2 /\ call.prev.cmd.op = "InsertRow" /\ call.prev.res.ok

\* C16: a SelectAll that follows a successful InsertRow into the same
\* table returns a row-set that holds the pair of the id assigned (the
\* table's next_row_id before the insert) and the inserted values, in the
\* order they were given.
C16_InsertThenSelect ==
    (Inserted /\ call.cmd = SelectAll(call.prev.cmd.table)) =>
        /\ call.res.ok
        /\ call.res.result.kind = "Rows"
        /\ \E k \in DOMAIN call.res.result.rows :
               call.res.result.rows[k]
                   = << call.prev.before.tables[call.cmd.table].next_row_id,
                        call.prev.cmd.values >>

\* The row inserted as the third of t came back from the SelectAll, last.
C16_Witness ==
    /\ Inserted
    /\ call.cmd = SelectAll(NameT)
    /\ call.prev.cmd.values = Row2
    /\ call.res.ok
    /\ Len(call.res.result.rows) = 3
    /\ call.res.result.rows[3] = << 3, Row2 >>

\* The positions at which a value's tag differs from the column's type.
Mismatches(values, columns) ==
    { k \in 1..Len(values) : values[k].tag # columns[k].col_type }
Leftmost(S) == CHOOSE k \in S : \A j \in S : k <= j

\* C17: InsertRow fails with "Table not found" if the table is absent;
\* otherwise with "Column count mismatch" if the number of values differs
\* from the number of columns; otherwise with "Type mismatch for column"
\* and the name of the leftmost column whose type differs from the tag of
\* the value at its position; and succeeds when none of these applies.
C17_InsertCheckOrder ==
    Did("InsertRow") =>
        IF ~Known THEN call.res = Err(MsgTableNotFound)
        ELSE IF Len(call.cmd.values) # Len(Before.columns)
             THEN call.res = Err(MsgColumnCountMismatch)
        ELSE IF Mismatches(call.cmd.values, Before.columns) # {}
             THEN call.res = Err(MsgTypeMismatchPrefix
                                 \o Before.columns[Leftmost(Mismatches(call.cmd.values,
                                                                       Before.columns))].name)
        ELSE call.res = Ok(ResOk)

\* Both values of the row were of the wrong type, and the error names the
\* first column.
C17_Witness ==
    /\ Did("InsertRow")
    /\ Known
    /\ Len(call.cmd.values) = Len(Before.columns)
    /\ Mismatches(call.cmd.values, Before.columns) = { 1, 2 }
    /\ call.res = Err(MsgTypeMismatchPrefix \o NameA)

\* C18: an InsertRow that fails leaves the whole store as it was, and an
\* InsertRow that succeeds after it gets the id it would have got without
\* the failed call.
C18_FailedInsertChangesNothing ==
    /\ (Did("InsertRow") /\ ~call.res.ok) => db = call.before
    /\ (Did("InsertRow") /\ call.res.ok /\ call.n >= 2
            /\ call.prev.cmd.op = "InsertRow" /\ ~call.prev.res.ok /\ Known
            /\ call.cmd.table \in DOMAIN call.prev.before.tables)
           => /\ Before.next_row_id = call.prev.before.tables[call.cmd.table].next_row_id
              /\ Before.next_row_id \in DOMAIN After.rows

\* An insert with a value of the wrong type failed on a table of two rows,
\* and the insert after it got the id 3.
C18_Witness ==
    /\ Did("InsertRow")
    /\ call.res.ok
    /\ call.n >= 2
    /\ call.prev.cmd.op = "InsertRow"
    /\ call.prev.res = Err(MsgTypeMismatchPrefix \o NameB)
    /\ DOMAIN After.rows = { 1, 2, 3 }
    /\ After.next_row_id = 4

\* C19: UpdateRow fails with "Table not found" when the table is absent,
\* and otherwise with "Row not found" when the table has no row of the id,
\* whatever the update set holds; in both cases the store is as it was.
C19_UpdateOfMissingRow ==
    Did("UpdateRow") =>
        /\ ~Known => (call.res = Err(MsgTableNotFound) /\ db = call.before)
        /\ (Known /\ call.cmd.row_id \notin DOMAIN Before.rows)
               => (call.res = Err(MsgRowNotFound) /\ db = call.before)

\* An update of row 9 of t, of a column t does not have, failed with "Row
\* not found" on a table of two rows.
C19_Witness ==
    /\ Did("UpdateRow")
    /\ Known
    /\ call.cmd.row_id = 9
    /\ DOMAIN call.cmd.updates = { NameC }
    /\ call.res = Err(MsgRowNotFound)
    /\ DOMAIN After.rows = { 1, 2 }

\* The columns of the table, by position.
ColumnName(k) == Before.columns[k].name
\* The column at k is the first of its name.
FirstOfName(k) == \A j \in 1..(k - 1) : ColumnName(j) # ColumnName(k)

\* What a successful UpdateRow leaves alone: the other tables, and of its
\* table the name, the columns, next_row_id, the ids and the other rows.
UpdateFrame ==
    /\ OthersUnchanged(call.cmd.table)
    /\ After.name = Before.name
    /\ After.columns = Before.columns
    /\ After.next_row_id = Before.next_row_id
    /\ DOMAIN After.rows = DOMAIN Before.rows
    /\ \A id \in DOMAIN Before.rows \ { call.cmd.row_id } : After.rows[id] = Before.rows[id]
    /\ Len(After.rows[call.cmd.row_id]) = Len(Before.rows[call.cmd.row_id])

ColumnsNamed(name) == { c \in DOMAIN Before.columns : ColumnName(c) = name }

\* The entry at place j of the iteration order is refused: the table has no
\* column of its name, or the first such column is of another type.
Refused(j) ==
    \/ ColumnsNamed(call.order[j]) = {}
    \/ call.cmd.updates[call.order[j]].tag
           # Before.columns[Leftmost(ColumnsNamed(call.order[j]))].col_type

\* The place of the first refused entry.
FirstRefused == Leftmost({ j \in DOMAIN call.order : Refused(j) })

\* The latest call was an UpdateRow that found its row and failed on an
\* entry of its update set.
FailedInLoop ==
    /\ Did("UpdateRow")
    /\ ~call.res.ok
    /\ Known
    /\ call.cmd.row_id \in DOMAIN Before.rows

\* C21: when UpdateRow fails on the k-th entry of its update set, in the
\* order the set was iterated, the row holds the values of the entries
\* before the k-th (each in the first column of its name) and its old
\* values everywhere else: the k-th and the later entries are not applied.
\* Nothing but that row has changed.
C21_PartialUpdate ==
    FailedInLoop =>
        /\ UpdateFrame
        /\ \A c \in DOMAIN Before.columns :
               After.rows[call.cmd.row_id][c]
                   = IF \E j \in 1..(FirstRefused - 1) :
                            Leftmost(ColumnsNamed(call.order[j])) = c
                     THEN call.cmd.updates[ColumnName(c)]
                     ELSE Before.rows[call.cmd.row_id][c]
        /\ call.res = IF ColumnsNamed(call.order[FirstRefused]) = {}
                      THEN Err(MsgColumnNotFound)
                      ELSE Err(MsgTypeMismatchPrefix \o call.order[FirstRefused])

\* The update {a: 7, c: 7} of row 1 of t met a first and failed on c, which
\* t does not have: a holds 7.
C21_Witness ==
    /\ FailedInLoop
    /\ call.order = << NameA, NameC >>
    /\ call.res = Err(MsgColumnNotFound)
    /\ Before.rows[call.cmd.row_id][1] = IntV(1)
    /\ After.rows[call.cmd.row_id][1] = IntV(7)

\* The row has one value per column of the table and each value has the type
\* of its column.
WellTyped(t, row) ==
    /\ Len(row) = Len(t.columns)
    /\ \A k \in 1..Len(row) : row[k].tag = t.columns[k].col_type

\* C22: after any sequence of commands, failed and partially applied ones
\* included, every stored row has exactly as many values as its table has
\* columns, and the value at each position has the declared type of the
\* column at that position.
C22_RowsAreWellTyped ==
    \A name \in DOMAIN db.tables :
        \A id \in DOMAIN db.tables[name].rows :
            WellTyped(db.tables[name], db.tables[name].rows[id])

\* A partially applied update has left its mark on a row: the latest call
\* failed and the row it addressed differs from the row before.
C22_Witness ==
    /\ FailedInLoop
    /\ After.rows[call.cmd.row_id] # Before.rows[call.cmd.row_id]
    /\ WellTyped(After, After.rows[call.cmd.row_id])

\* The tables of the store are kept under their names: no two share one.
TableNamesDistinct ==
    \A name \in DOMAIN db.tables : db.tables[name].name = name

\* No two columns of the table have the same name.
ColumnNamesDistinct(t) ==
    \A j, k \in DOMAIN t.columns : j # k => t.columns[j].name # t.columns[k].name

\* C23: in every reachable store, table names are pairwise distinct within
\* the store and column names are pairwise distinct within each table.
C23_NamesAreUnique ==
    /\ TableNamesDistinct
    /\ \A name \in DOMAIN db.tables : ColumnNamesDistinct(db.tables[name])

\* The row-set lists the rows of the table t, each once, by increasing id.
ListsRowsOf(t, rows) ==
    /\ Len(rows) = Cardinality(DOMAIN t.rows)
    /\ \A k \in DOMAIN rows :
           /\ rows[k][1] \in DOMAIN t.rows
           /\ rows[k][2] = t.rows[rows[k][1]]
    /\ \A id \in DOMAIN t.rows :
           Cardinality({ k \in DOMAIN rows : rows[k][1] = id }) = 1
    /\ IdsIncrease(rows)

\* C24: SelectAll on an existing table returns the table's column names in
\* declared order and every stored row exactly once, with ids in strictly
\* ascending order; SelectAll on an absent table fails with "Table not
\* found". Either way the store is the store of before the call.
C24_SelectAll ==
    Did("SelectAll") =>
        /\ db = call.before
        /\ IF Known
           THEN /\ call.res.ok
                /\ call.res.result.kind = "Rows"
                /\ call.res.result.columns
                       = [k \in 1..Len(Before.columns) |-> Before.columns[k].name]
                /\ ListsRowsOf(Before, call.res.result.rows)
           ELSE call.res = Err(MsgTableNotFound)

\* SelectAll of the table t holding three rows returned them as 1, 2, 3
\* under the columns a, b.
C24_Witness ==
    /\ Did("SelectAll")
    /\ call.cmd.table = NameT
    /\ call.res.ok
    /\ call.res.result.columns = << NameA, NameB >>
    /\ Len(call.res.result.rows) = 3
    /\ call.res.result.rows[1] = << 1, Row1 >>
    /\ call.res.result.rows[2] = << 2, Row2 >>
    /\ call.res.result.rows[3][1] = 3

\* The lowercase name of a column type, as bytes: int, text, bool.
LowercaseName(col_type) ==
    IF col_type = "Int" THEN << 105, 110, 116 >>
    ELSE IF col_type = "Text" THEN << 116, 101, 120, 116 >>
    ELSE << 98, 111, 111, 108 >>

\* The number of columns of the first p tables in the order of emission.
RECURSIVE ColumnsOfFirst(_)
ColumnsOfFirst(p) ==
    IF p = 0 THEN 0
    ELSE ColumnsOfFirst(p - 1) + Len(call.before.tables[call.order[p]].columns)

\* C25: GetTables returns the columns (table_name, column_name, column_type)
\* and exactly one row per (table, column) pair of the store: the row ids
\* are 1..N in the order of emission, the columns of one table are emitted
\* contiguously in declared order (table after table in the order the table
\* map was iterated), and column_type is the lowercase type name. The store
\* is the store of before the call.
C25_GetTables ==
    Did("GetTables") =>
        /\ db = call.before
        /\ call.res.ok
        /\ call.res.result.kind = "Rows"
        /\ call.res.result.columns = << StrTableName, StrColumnName, StrColumnType >>
        /\ Len(call.res.result.rows) = ColumnsOfFirst(Len(call.order))
        /\ \A k \in DOMAIN call.res.result.rows : call.res.result.rows[k][1] = k
        /\ \A p \in DOMAIN call.order :
               \A c \in DOMAIN call.before.tables[call.order[p]].columns :
                   call.res.result.rows[ColumnsOfFirst(p - 1) + c][2]
                       = << TextV(call.order[p]),
                            TextV(call.before.tables[call.order[p]].columns[c].name),
                            TextV(LowercaseName(
                                call.before.tables[call.order[p]].columns[c].col_type)) >>

\* GetTables of a store holding u (a Int, a Int) and t (a Int, b Text),
\* iterated in that order, returned four rows, the fourth being
\* (4, t, b, text).
C25_Witness ==
    /\ Did("GetTables")
    /\ call.order = << NameU, NameT >>
    /\ call.res.ok
    /\ Len(call.res.result.rows) = 4
    /\ call.res.result.rows[4]
           = << 4, << TextV(NameT), TextV(NameB), TextV(<< 116, 101, 120, 116 >>) >> >>

(***************************************************************************)
(* Reading one frame off a socket                                          *)
(*                                                                         *)
(* The server reads command frames with read_frame (main.rs 109-126, the   *)
(* same text as protocol.rs 313-330) from the loop of its connection task  *)
(* (main.rs 82-103, listener.rs 22-48).  The client reads result frames    *)
(* with its own read_frame (client.rs 127-135) after each command it has   *)
(* sent (client.rs 60-66).  The variable reader follows one such task:     *)
(*   side       "server" or "client"                                       *)
(*   pc         "len_buf" before read_exact(&mut len_buf), "len" with the  *)
(*              length decoded, "data" with the buffer allocated, "frame"  *)
(*              with the payload read, "closed" when the loop was left     *)
(*   len        the declared length                                        *)
(*   allocated  the length of the buffer made by vec![0u8; len]            *)
(*   filled     the payload bytes read into it                             *)
(*   frames     the frames handed on so far: to the actor by the server,   *)
(*              to decode_response by the client                           *)
(*   why        the reason the loop was left                               *)
(* The payload's bytes are not kept, only their number.  Lengths stop at   *)
(* 2^31 - 1 of the u32's 2^32 - 1: the integers of the model are 32-bit.   *)
(***************************************************************************)
MAX_FRAME == 1048576

\* The frames one task reads.
MaxFrames == 2

\* The length prefixes a peer sends: 0, 1, 2, one less than the cap, the
\* cap, one more, 256 more, 2^24 and 2^31 - 1.
LengthPrefixes ==
    { << 0, 0, 0, 0 >>, << 0, 0, 0, 1 >>, << 0, 0, 0, 2 >>, << 0, 15, 255, 255 >>,
      << 0, 16, 0, 0 >>, << 0, 16, 0, 1 >>, << 0, 16, 1, 0 >>, << 1, 0, 0, 0 >>,
      << 127, 255, 255, 255 >> }

Readers == { "server", "client" }

\* A task about to read the length of its next frame.
Reading(side, frames) ==
    [side |-> side, pc |-> "len_buf", len |-> 0, allocated |-> 0, filled |-> 0,
     frames |-> frames, why |-> "none"]

\* The task has left its loop.
Closed(why) == [reader EXCEPT !.pc = "closed", !.why = why]

InitFrame ==
    /\ ActorIdle
    /\ codec = [phase |-> "idle"]
    /\ call = NoCall
    /\ reader \in { Reading(side, 0) : side \in Readers }

\* A cap that refuses the largest frame allowed.
frame_too_large_at_cap(len) == len >= MAX_FRAME

\* `if len > 1024 * 1024`
frame_too_large(len) == len > MAX_FRAME

\* read_exact(&mut len_buf) succeeds; len = u32::from_be_bytes(len_buf).
ReadLength ==
    /\ reader.pc = "len_buf"
    /\ \E len_buf \in LengthPrefixes :
           reader' = [reader EXCEPT !.pc = "len", !.len = from_be_bytes(len_buf)]
    /\ UNCHANGED << actorVars, codec, call >>

\* read_exact(&mut len_buf) fails: the server's read_frame returns Ok(None)
\* and its loop breaks; the client's returns the error and the session ends.
ReadLengthFails ==
    /\ reader.pc = "len_buf"
    /\ reader' = Closed(IF reader.side = "server" THEN "eof" ELSE "read_error")
    /\ UNCHANGED << actorVars, codec, call >>

\* The server: the check of the length, then vec![0u8; len].  On "Frame too
\* large" the caller prints the error and breaks.
ServerAllocate ==
    /\ reader.pc = "len"
    /\ reader.side = "server"
    /\ reader' = IF frame_too_large(reader.len)
                 THEN Closed("too_large")
                 ELSE [reader EXCEPT !.pc = "data", !.allocated = reader.len]
    /\ UNCHANGED << actorVars, codec, call >>

\* The client: vec![0u8; len] right after the length.
ClientAllocate ==
    /\ reader.pc = "len"
    /\ reader.side = "client"
    /\ reader' = [reader EXCEPT !.pc = "data", !.allocated = reader.len]
    /\ UNCHANGED << actorVars, codec, call >>

\* read_exact(&mut data) succeeds: the buffer is full.
ReadPayload ==
    /\ reader.pc = "data"
    /\ reader' = [reader EXCEPT !.pc = "frame", !.filled = reader.allocated]
    /\ UNCHANGED << actorVars, codec, call >>

\* read_exact(&mut data) fails after some bytes, none or all but one: the
\* error leaves read_frame and the caller leaves its loop.
ReadPayloadFails ==
    /\ reader.pc = "data"
    /\ \E got \in { 0, reader.allocated - 1 } :
           /\ got >= 0
           /\ reader' = [Closed("read_error") EXCEPT !.filled = got]
    /\ UNCHANGED << actorVars, codec, call >>

\* The frame is handed on (the server sends Command::Tcp with it and writes
\* the reply, the client decodes it) and the task reads the next one.
HandOn ==
    /\ reader.pc = "frame"
    /\ reader.frames < MaxFrames
    /\ reader' = Reading(reader.side, reader.frames + 1)
    /\ UNCHANGED << actorVars, codec, call >>

\* The server's tx.send fails, the actor being gone: the loop breaks.
SendFails ==
    /\ reader.pc = "frame"
    /\ reader.side = "server"
    /\ reader' = Closed("actor_gone")
    /\ UNCHANGED << actorVars, codec, call >>

NextFrame ==
    \/ ReadLength
    \/ ReadLengthFails
    \/ ServerAllocate
    \/ ClientAllocate
    \/ ReadPayload
    \/ ReadPayloadFails
    \/ HandOn
    \/ SendFails

FrameSpec == InitFrame /\ [][NextFrame]_vars

\* The reader of the side keeps to the cap: its buffer is never longer than
\* 1 MiB, a frame declared longer has been refused by the time the length
\* check is passed, with no buffer made and no payload byte read, and a
\* frame declared no longer goes on with a buffer of its length.
KeepsCap(side) ==
    (reader.pc # "idle" /\ reader.side = side) =>
        /\ reader.allocated <= MAX_FRAME
        /\ reader.filled <= reader.allocated
        /\ (reader.len > MAX_FRAME /\ reader.pc # "len") =>
               /\ reader.pc = "closed"
               /\ reader.why = "too_large"
               /\ reader.allocated = 0
               /\ reader.filled = 0
        /\ reader.why = "too_large" => reader.len > MAX_FRAME
        /\ reader.pc \in { "data", "frame" } =>
               /\ reader.len <= MAX_FRAME
               /\ reader.allocated = reader.len

\* A frame is handed on only when its payload was read in full, and its
\* declared length is within the cap.
HandsOnWholeFrames ==
    (reader.pc # "idle" /\ reader'.frames > reader.frames) =>
        /\ reader.pc = "frame"
        /\ reader.len <= MAX_FRAME
        /\ reader.filled = reader.len

\* A task that has left its loop reads nothing more.
ClosedIsFinal == reader.pc = "closed" => reader' = reader

\* C26: the server's frame reader rejects a frame whose declared length is
\* greater than 1 MiB before allocating a buffer of that length or reading
\* any payload byte, hands nothing to the actor for it, and the
\* connection's read loop ends; a declared length of exactly 1 MiB is
\* accepted.
C26_ServerCapsFrames ==
    /\ [](KeepsCap("server"))
    /\ [][reader.side = "server" => (HandsOnWholeFrames /\ ClosedIsFinal)]_vars

\* The server has handed on one frame and refused the next, declared one
\* byte over the cap, with no buffer made for it.
C26_Witness ==
    /\ reader.pc = "closed"
    /\ reader.side = "server"
    /\ reader.why = "too_large"
    /\ reader.len = MAX_FRAME + 1
    /\ reader.allocated = 0
    /\ reader.frames = 1

\* C27: the client-side reader of result frames also rejects a declared
\* length greater than 1 MiB before allocating or reading the payload.
C27_ClientCapsFrames == KeepsCap("client")

(***************************************************************************)
(* Error replies: a frame that fails in the Command::Tcp arm of the actor  *)
(* (main.rs 53-62), the reply encode_error makes of the message, and what  *)
(* decode_response makes of the reply.  codec keeps the case (kind, len)   *)
(* and numbers only: the messages, up to 65560 bytes long, are computed in *)
(* the actions.                                                            *)
(***************************************************************************)
FailKinds == { "insert", "update", "select", "create", "truncated" }

\* The lengths of the column name: short ones, and the three with which the
\* type mismatch message has 65535, 65536 and 65560 bytes.
FailLengths == 0..MaxShort \cup { 65510, 65511, 65535 }

\* The table t with one Int column whose name has len bytes, and one row.
NamedStore(len) ==
    Run(Database_default, << CreateTable(NameT, << << Bytes(len), "Int" >> >>),
                             InsertRow(NameT, << IntV(1) >>) >>)

\* The frame of the case and the order in which its update set is iterated:
\* an insert and an update of a Text into the Int column, a select of a
\* table that is not there, a create of the table that is, and a frame cut
\* short.
FailFrame(kind, len) ==
    IF kind = "insert" THEN encode_command(InsertRow(NameT, << TextV(NameA) >>), << >>)
    ELSE IF kind = "update"
         THEN encode_command(UpdateRow(NameT, 1, Bytes(len) :> TextV(NameA)), << Bytes(len) >>)
    ELSE IF kind = "select" THEN encode_command(SelectAll(NameA), << >>)
    ELSE IF kind = "create" THEN encode_command(CreateTable(NameT, ColsT), << >>)
    ELSE SubSeq(encode_command(CreateTable(NameT, ColsT), << >>), 1, IF len < 8 THEN len ELSE 8)

FailOrder(kind, len) == IF kind = "update" THEN << Bytes(len) >> ELSE << >>

\* The message of the failure: of the decoder behind "Protocol error: ", or
\* of the store.
FailMessage(dbv, parsed, order) ==
    IF ~parsed.ok THEN MsgProtocolErrorPrefix \o parsed.err
    ELSE execute(dbv, parsed.cmd, order).res.err

Replied(kind, len, msg, reply) ==
    [phase |-> "replied", kind |-> kind, len |-> len, msg_len |-> Len(msg),
     status |-> reply[1], prefix |-> from_be_bytes(SubSeq(reply, 2, 3)),
     reply_len |-> Len(reply)]

ErrorDecoded(msg, d) ==
    [phase |-> "decoded", kind |-> codec.kind, len |-> codec.len,
     msg_len |-> codec.msg_len, status |-> codec.status, prefix |-> codec.prefix,
     reply_len |-> codec.reply_len, out |-> d.out, same |-> (d = DecErr(msg))]

InitErrorFrame ==
    /\ ActorIdle
    /\ call = NoCall
    /\ reader = NoReader
    /\ \E kind \in FailKinds, len \in FailLengths :
           codec = [phase |-> "failing", kind |-> kind, len |-> len]

\* The reply the actor's arm sends for the frame data, with the store dbv.
\* Each value is bound once it is computed.
ReplyTo(dbv, data, order) ==
    \E parsed \in { parse_command(data) } :
        \E msg \in { FailMessage(dbv, parsed, order) },
           reply \in { tcp_parsed(dbv, parsed, order).response } :
            codec' = Replied(codec.kind, codec.len, msg, reply)

\* The actor's arm on the failing frame: the reply it sends.
ReplyError ==
    /\ codec.phase = "failing"
    /\ \E dbv \in { NamedStore(codec.len) }, data \in { FailFrame(codec.kind, codec.len) } :
           ReplyTo(dbv, data, FailOrder(codec.kind, codec.len))
    /\ UNCHANGED << actorVars, call, reader >>

\* What decode_response makes of the reply to the frame data.
DecodeReplyTo(dbv, data, order) ==
    \E parsed \in { parse_command(data) } :
        \E msg \in { FailMessage(dbv, parsed, order) },
           reply \in { tcp_parsed(dbv, parsed, order).response } :
            \E d \in { decode_response(reply) } : codec' = ErrorDecoded(msg, d)

\* The client's decode_response on the reply.
DecodeError ==
    /\ codec.phase = "replied"
    /\ \E dbv \in { NamedStore(codec.len) }, data \in { FailFrame(codec.kind, codec.len) } :
           DecodeReplyTo(dbv, data, FailOrder(codec.kind, codec.len))
    /\ UNCHANGED << actorVars, call, reader >>

NextErrorFrame == ReplyError \/ DecodeError

ErrorFrameSpec == InitErrorFrame /\ [][NextErrorFrame]_vars

\* C28: every error reply the actor encodes, for every error message the
\* store or the decoder can produce, a type mismatch naming a column of
\* maximal length included, is a well-formed error frame: the status byte
\* 0x01, a u16 length equal to the byte length of the message, then exactly
\* those bytes, so that decode_response returns the same message.
C28_ErrorFramesAreWellFormed ==
    /\ codec.phase \in { "replied", "decoded" } =>
           /\ codec.status = RESP_ERR
           /\ codec.prefix = codec.msg_len
           /\ codec.reply_len = 3 + codec.msg_len
    /\ codec.phase = "decoded" => (codec.out = "err" /\ codec.same)

\* The iteration orders of the command's update set, for a set of at most
\* MaxCols entries; the order met, for a larger one or another command.
OtherOrders(cmd, order) ==
    IF cmd.op = "UpdateRow" /\ Cardinality(DOMAIN cmd.updates) <= MaxCols
    THEN Perms(DOMAIN cmd.updates)
    ELSE { order }

\* Two runs of the latest call from the same store, whatever order each
\* meets when it iterates over a map, end in the same store with the same
\* reply.
RunsAgree ==
    call.n > 0 =>
        \A order \in Orders(call.before, call.cmd) :
            execute(call.before, call.cmd, order) = [db |-> db, res |-> call.res]

\* C29: encoding is deterministic: two equal command values always encode
\* to the same byte sequence, in particular an UpdateRow whose update set
\* has two or more entries: the bytes do not depend on the order in which
\* the encoder meets the entries of the set.
C29_EncodingIsDeterministic ==
    codec.phase = "command_bytes" =>
        \A order \in OtherOrders(codec.input, codec.order) :
            encode_command(codec.input, order) = codec.bytes
=============================================================================
